---- MODULE Spec2Model ----
(***************************************************************************)
(* Model of github.com/bool64/dbwrap: the middleware / interceptor         *)
(* pipeline that the decorated driver objects (wConn, wStmt, wResult,      *)
(* wRows, wTx) run around every call to the concrete database driver.      *)
(*                                                                         *)
(* Every decorated method is an operator from the receiver, the caller's   *)
(* arguments and the concrete driver's answer to the trace of the call     *)
(* (interceptor, before-hooks, concrete call, finalizers, in the order the *)
(* code performs them), the error returned and the object returned.        *)
(***************************************************************************)
EXTENDS Naturals, Integers, Sequences, FiniteSets, TLC

(***************************************************************************)
(* Bounds of the model.                                                    *)
(***************************************************************************)
\* longest configured middleware list
MaxMws == 2
\* the options of one Wrap, WrapConn or WrapConnector call
MaxOptions == 3
\* the frames of a call stack below the three nearest the call
MaxFrames == 4
\* the calls of RegisterWithSource, each in a goroutine of its own
NProcs == 3

(***************************************************************************)
(* Operation tags.                                                         *)
(***************************************************************************)
Ping == "ping"
Exec == "exec"
Query == "query"
Prepare == "prepare"
Begin == "begin"
LastInsertID == "last_insert_id"
RowsAffected == "rows_affected"
StmtExec == "stmt_exec"
StmtQuery == "stmt_query"
StmtClose == "stmt_close"
RowsClose == "rows_close"
RowsNext == "rows_next"
Commit == "commit"
Rollback == "rollback"

Operation ==
  { Ping, Exec, Query, Prepare, Begin, LastInsertID, RowsAffected, StmtExec,
    StmtQuery, StmtClose, RowsClose, RowsNext, Commit, Rollback }

\* a default set that leaves out ping only
defaultOperationsWithRowsNext ==
  { Exec, Query, Prepare, Begin, LastInsertID, RowsAffected, StmtExec,
    StmtQuery, StmtClose, RowsClose, RowsNext, Commit, Rollback }

defaultOperations ==
  { Exec, Query, Prepare, Begin, LastInsertID, RowsAffected, StmtExec,
    StmtQuery, StmtClose, RowsClose, Commit, Rollback }

(***************************************************************************)
(* Values: errors, contexts, statements, parameters.                       *)
(***************************************************************************)
\* the nil error
NoErr == "nil"
\* driver.ErrSkip
ErrSkip == "driver: skip fast-path; continue as if unimplemented"
\* an error of the concrete driver
ErrFailed == "failed"
\* io.EOF
EOF == "EOF"
ErrNoPing == "driver does not implement Ping"
ErrNoExecContext == "driver does not implement ExecContext"
ErrNoQueryContext == "driver does not implement QueryContext"
\* a call that ends in a run-time panic returns nothing
Panic == "panic: nil pointer dereference"

\* a context is the chain of derivations from its root
Background == << "background" >>
\* a nil function value (no interceptor, no finalizer)
NilFn == "nil"

\* driver.NamedValue
NamedValue(name, ordinal, value) ==
  [Name |-> name, Ordinal |-> ordinal, Value |-> value]

namedValues(args) ==
  [i \in 1..Len(args) |-> NamedValue("", 0, args[i])]

values(nargs) ==
  [i \in 1..Len(nargs) |-> nargs[i].Value]

(***************************************************************************)
(* Events of a call, in the order the code performs them.                  *)
(***************************************************************************)
EvBlank ==
  [k |-> "", i |-> 0, op |-> "", stmt |-> <<>>, args |-> <<>>, vals |-> <<>>,
   ctx |-> <<>>, err |-> "", noop |-> FALSE]

\* the interceptor is invoked with (ctx, op, stmt, args)
EvIntercept(ctx, op, stmt, args) ==
  [EvBlank EXCEPT !.k = "intercept", !.ctx = ctx, !.op = op, !.stmt = stmt,
                  !.args = args]

\* the before-hook of the middleware at position i is invoked
EvBefore(i, ctx, op, stmt, args) ==
  [EvBlank EXCEPT !.k = "before", !.i = i, !.ctx = ctx, !.op = op,
                  !.stmt = stmt, !.args = args]

\* the finalizer of the middleware at position i is invoked with err
EvAfter(i, noop, err) ==
  [EvBlank EXCEPT !.k = "after", !.i = i, !.noop = noop, !.err = err]

\* method m of the concrete object is called and returns err
EvReal(m, ctx, stmt, args, vals, err) ==
  [EvBlank EXCEPT !.k = "real", !.op = m, !.ctx = ctx, !.stmt = stmt,
                  !.args = args, !.vals = vals, !.err = err]

(***************************************************************************)
(* User callbacks.  A middleware is named by what it does:                 *)
(*   "obs"   returns the context it got and a finalizer,                   *)
(*   "span"  returns a derived context and a finalizer,                    *)
(*   "bare"  returns the context it got and no finalizer.                  *)
(***************************************************************************)
MiddlewareKinds == { "obs", "span", "bare" }

Middleware(mw, ctx, operation, statement, args) ==
  [nCtx |-> IF mw = "span" THEN Append(ctx, "span") ELSE ctx,
   onFinish |-> IF mw = "bare" THEN NilFn ELSE "fn"]

(***************************************************************************)
(* An interceptor is named by what it does:                                *)
(*   "rewrite"  derives the context, appends a comment to the statement    *)
(*              and overwrites the value of the first parameter,           *)
(*   "name"     names every parameter and leaves the rest alone.           *)
(***************************************************************************)
InterceptKinds == { "rewrite", "name" }

Intercept(f, ctx, operation, statement, args) ==
  IF f = "rewrite"
  THEN [ctx |-> Append(ctx, "intercepted"),
        statement |-> Append(statement, "#intercepted"),
        args |-> [i \in 1..Len(args) |->
                    IF i = 1 THEN [args[i] EXCEPT !.Value = "intercepted"]
                    ELSE args[i]]]
  ELSE [ctx |-> ctx,
        statement |-> statement,
        args |-> [i \in 1..Len(args) |-> [args[i] EXCEPT !.Name = "p"]]]

(***************************************************************************)
(* Options.                                                                *)
(***************************************************************************)
\* Options{}
ZeroOptions ==
  [Middlewares |-> <<>>, Intercept |-> NilFn, Operations |-> <<>>,
   operations |-> {}]

WithOptions(options) == [t |-> "WithOptions", o |-> options]
WithMiddleware(mw) == [t |-> "WithMiddleware", o |-> [ZeroOptions EXCEPT !.Middlewares = mw]]
WithInterceptor(i) == [t |-> "WithInterceptor", o |-> [ZeroOptions EXCEPT !.Intercept = i]]
WithOperations(op) == [t |-> "WithOperations", o |-> [ZeroOptions EXCEPT !.Operations = op]]

\* option(&o) with a WithOperations that replaces the operations listed so far
ApplyOptionReplacing(option, o) ==
  CASE option.t = "WithOptions" -> option.o
    [] option.t = "WithMiddleware" ->
         [o EXCEPT !.Middlewares = o.Middlewares \o option.o.Middlewares]
    [] option.t = "WithInterceptor" ->
         [o EXCEPT !.Intercept = option.o.Intercept]
    [] option.t = "WithOperations" ->
         [o EXCEPT !.Operations = option.o.Operations]

\* option(&o)
ApplyOption(option, o) ==
  CASE option.t = "WithOptions" -> option.o
    [] option.t = "WithMiddleware" ->
         [o EXCEPT !.Middlewares = o.Middlewares \o option.o.Middlewares]
    [] option.t = "WithInterceptor" ->
         [o EXCEPT !.Intercept = option.o.Intercept]
    [] option.t = "WithOperations" ->
         [o EXCEPT !.Operations = o.Operations \o option.o.Operations]

\* the options applied from the last to the first
RECURSIVE ApplyOptionsBackwards(_, _)
ApplyOptionsBackwards(options, o) ==
  IF options = <<>> THEN o
  ELSE ApplyOption(Head(options), ApplyOptionsBackwards(Tail(options), o))

RECURSIVE ApplyOptions(_, _)
ApplyOptions(options, o) ==
  IF options = <<>> THEN o
  ELSE ApplyOptions(Tail(options), ApplyOption(Head(options), o))

SeqRange(s) == { s[i] : i \in 1..Len(s) }

\* prepareOptions returns the prepared Options and whether they are operational
\* prepareOptions that adds the selected operations to the default ones
prepareOptionsKeepingDefaults(options) ==
  LET o == ApplyOptions(options, ZeroOptions)
  IN IF Len(o.Middlewares) = 0 /\ o.Intercept = NilFn
     THEN [o |-> o, ok |-> FALSE]
     ELSE [o |-> [o EXCEPT !.operations =
                     defaultOperations \cup SeqRange(o.Operations)],
           ok |-> TRUE]

prepareOptions(options) ==
  LET o == ApplyOptions(options, ZeroOptions)
  IN IF Len(o.Middlewares) = 0 /\ o.Intercept = NilFn
     THEN [o |-> o, ok |-> FALSE]
     ELSE [o |-> [o EXCEPT !.operations =
                     IF Len(o.Operations) > 0 THEN SeqRange(o.Operations)
                     ELSE defaultOperations],
           ok |-> TRUE]

(***************************************************************************)
(* The middleware stage.                                                   *)
(***************************************************************************)
\* apply with the finalizers stored in configuration order
applyForward(ctx, mws, operation, statement, args) ==
  LET n == Len(mws)
      ctxAt[i \in 0..n] ==
        IF i = 0 THEN ctx
        ELSE Middleware(mws[i], ctxAt[i - 1], operation, statement, args).nCtx
      onFinish(i) ==
        Middleware(mws[i], ctxAt[i - 1], operation, statement, args).onFinish
  IN [ctx |-> ctxAt[n],
      finalizers |-> [j \in 1..n |-> [mw |-> j, noop |-> onFinish(j) = NilFn]],
      log |-> [i \in 1..n |-> EvBefore(i, ctxAt[i - 1], operation, statement, args)]]

\* apply that stores a nil finalizer as it is: the deferred loop stops at the
\* call of the nil function
applyKeepingNil(ctx, mws, operation, statement, args) ==
  LET n == Len(mws)
      ctxAt[i \in 0..n] ==
        IF i = 0 THEN ctx
        ELSE Middleware(mws[i], ctxAt[i - 1], operation, statement, args).nCtx
      onFinish(i) ==
        Middleware(mws[i], ctxAt[i - 1], operation, statement, args).onFinish
      nils == { j \in 1..n : onFinish(n - j + 1) = NilFn }
      stop == IF nils = {} THEN n
              ELSE (CHOOSE j \in nils : \A k \in nils : j <= k) - 1
  IN [ctx |-> ctxAt[n],
      finalizers |-> [j \in 1..stop |-> [mw |-> n - j + 1, noop |-> FALSE]],
      log |-> [i \in 1..n |-> EvBefore(i, ctxAt[i - 1], operation, statement, args)]]

\* apply that hands every middleware the context apply was called with
applyUnchained(ctx, mws, operation, statement, args) ==
  LET n == Len(mws)
      onFinish(i) == Middleware(mws[i], ctx, operation, statement, args).onFinish
  IN [ctx |-> IF n = 0 THEN ctx
              ELSE Middleware(mws[n], ctx, operation, statement, args).nCtx,
      finalizers |-> [j \in 1..n |->
                        [mw |-> n - j + 1, noop |-> onFinish(n - j + 1) = NilFn]],
      log |-> [i \in 1..n |-> EvBefore(i, ctx, operation, statement, args)]]

apply(ctx, mws, operation, statement, args) ==
  LET n == Len(mws)
      ctxAt[i \in 0..n] ==
        IF i = 0 THEN ctx
        ELSE Middleware(mws[i], ctxAt[i - 1], operation, statement, args).nCtx
      onFinish(i) ==
        Middleware(mws[i], ctxAt[i - 1], operation, statement, args).onFinish
  IN [ctx |-> ctxAt[n],
      finalizers |-> [j \in 1..n |->
                        [mw |-> n - j + 1, noop |-> onFinish(n - j + 1) = NilFn]],
      log |-> [i \in 1..n |-> EvBefore(i, ctxAt[i - 1], operation, statement, args)]]

\* the deferred loop run only when the call succeeded
deferredOnSuccess(finalizers, err) ==
  IF err = NoErr
  THEN [j \in 1..Len(finalizers) |->
          EvAfter(finalizers[j].mw, finalizers[j].noop, err)]
  ELSE <<>>

\* the deferred loop: for _, onFinish := range finalizers { onFinish(err) }
deferred(finalizers, err) ==
  [j \in 1..Len(finalizers) |-> EvAfter(finalizers[j].mw, finalizers[j].noop, err)]

(***************************************************************************)
(* Driver objects.  A concrete object is known by the optional roles it    *)
(* implements; a decorated object by the roles it advertises, the concrete *)
(* object behind it, and the context, statement and Options it stores.     *)
(***************************************************************************)
ConnRoles ==
  { "Pinger", "Execer", "ExecerContext", "Queryer", "QueryerContext",
    "ConnPrepareContext", "ConnBeginTx", "NamedValueChecker", "SessionResetter" }

StmtRoles ==
  { "StmtExecContext", "StmtQueryContext", "ColumnConverter", "NamedValueChecker" }

\* a concrete object with the optional roles caps; a nil interface has none
Concrete(caps) == [nil |-> FALSE, caps |-> caps]
NilObject == [nil |-> TRUE, caps |-> {}]

Object(kind, ctx, parent, query, roles, options) ==
  [kind |-> kind, ctx |-> ctx, parent |-> parent, query |-> query,
   roles |-> roles, options |-> options]

\* no object (a nil result, rows, statement or transaction)
None == Object("none", <<>>, NilObject, <<>>, {}, ZeroOptions)

\* the roles of interface conn, which *wConn implements whatever its parent is
connInterface ==
  { "Conn", "Pinger", "Execer", "ExecerContext", "Queryer", "QueryerContext",
    "ConnPrepareContext", "ConnBeginTx" }

\* a decorated connection that advertises every role whatever its parent has
wrapConnAll(parent, options) ==
  Object("conn", <<>>, parent, <<>>, connInterface \cup ConnRoles, options)
    @@ [forwards |-> {}]

\* the four cases of wrapConn: *wConn itself (which has a CheckNamedValue
\* method of its own), or a struct that embeds interface conn and the
\* parent's NamedValueChecker and SessionResetter; forwards are the roles
\* the parent answers itself
wrapConn(parent, options) ==
  LET hasNameValueChecker == "NamedValueChecker" \in parent.caps
      hasSessionResetter == "SessionResetter" \in parent.caps
      roles ==
        CASE ~hasNameValueChecker /\ ~hasSessionResetter ->
               connInterface \cup {"NamedValueChecker"}
          [] hasNameValueChecker /\ ~hasSessionResetter ->
               connInterface \cup {"NamedValueChecker"}
          [] ~hasNameValueChecker /\ hasSessionResetter ->
               connInterface \cup {"SessionResetter"}
          [] OTHER ->
               connInterface \cup {"NamedValueChecker", "SessionResetter"}
  IN Object("conn", <<>>, parent, <<>>, roles, options)
       @@ [forwards |-> parent.caps \cap {"NamedValueChecker", "SessionResetter"}]

\* a decorated statement that advertises both context roles whatever its
\* parent has
wrapStmtAll(ctx, stmt, query, options) ==
  Object("stmt", ctx, stmt, query,
         {"Stmt", "StmtExecContext", "StmtQueryContext"}
           \cup (stmt.caps \cap {"ColumnConverter", "NamedValueChecker"}),
         options)
    @@ [forwards |-> stmt.caps \cap {"ColumnConverter", "NamedValueChecker"}]

\* the sixteen cases of wrapStmt: a struct of driver.Stmt and the optional
\* roles probed true; the context roles are answered by wStmt, the
\* ColumnConverter and the NamedValueChecker by the parent
wrapStmt(ctx, stmt, query, options) ==
  Object("stmt", ctx, stmt, query, {"Stmt"} \cup (stmt.caps \cap StmtRoles), options)
    @@ [forwards |-> stmt.caps \cap {"ColumnConverter", "NamedValueChecker"}]

wResult(parent, ctx, options) ==
  Object("result", ctx, parent, <<>>, {"Result"}, options)

\* rows that advertise the roles of wRows only
wrapRowsPlain(ctx, parent, options) ==
  Object("rows", ctx, parent, <<>>,
         { "Rows", "RowsNextResultSet", "RowsColumnTypeDatabaseTypeName",
           "RowsColumnTypeLength", "RowsColumnTypeNullable",
           "RowsColumnTypePrecisionScale" },
         options)

wrapRows(ctx, parent, options) ==
  Object("rows", ctx, parent, <<>>,
         { "Rows", "RowsNextResultSet", "RowsColumnTypeDatabaseTypeName",
           "RowsColumnTypeLength", "RowsColumnTypeNullable",
           "RowsColumnTypePrecisionScale" }
           \cup (parent.caps \cap {"RowsColumnTypeScanType"}),
         options)

wTx(parent, ctx, options) ==
  Object("tx", ctx, parent, <<>>, {"Tx"}, options)

\* what a decorated method hands back: the trace of the call, the error and
\* the object returned
Out(log, err, obj) == [log |-> log, err |-> err, obj |-> obj]

\* a concrete connector and the concrete driver its Driver() returns
Connector(d) == [nil |-> FALSE, caps |-> {"Connector"}, driver |-> d]

\* wDriver has the methods Open, OpenConnector, Connect and Driver
wDriver(parent, connector, roles, options) ==
  [kind |-> "driver", parent |-> parent, connector |-> connector,
   roles |-> roles, options |-> options]

wrapDriver(d, o) ==
  IF "DriverContext" \in d.caps
  THEN wDriver(d, NilObject, {"Driver", "DriverContext", "Connector"}, o)
  ELSE wDriver(d, NilObject, {"Driver"}, o)

\* Wrap that decorates whatever the options are
WrapAlways(d, options) == wrapDriver(d, prepareOptions(options).o)

Wrap(d, options) ==
  LET po == prepareOptions(options)
  IN IF po.ok THEN wrapDriver(d, po.o) ELSE d

WrapConnector(dc, options) ==
  LET po == prepareOptions(options)
  IN IF po.ok
     THEN wDriver(dc.driver, dc, {"Driver", "DriverContext", "Connector"}, po.o)
     ELSE dc

WrapConn(c, options) ==
  LET po == prepareOptions(options)
  IN IF po.ok THEN wrapConn(c, po.o) ELSE c

(***************************************************************************)
(* wDriver.  rerr is the error the concrete driver or connector answers    *)
(* with, robj the concrete object it answers with when rerr is nil.        *)
(***************************************************************************)
\* Open that decorates the connection under no options at all
wDriver_OpenBare(d, rerr, robj) ==
  Out(<< EvReal("Driver.Open", <<>>, <<>>, <<>>, <<>>, rerr) >>,
      rerr,
      IF rerr # NoErr THEN None ELSE wrapConn(robj, ZeroOptions))

wDriver_Open(d, rerr, robj) ==
  Out(<< EvReal("Driver.Open", <<>>, <<>>, <<>>, <<>>, rerr) >>,
      rerr,
      IF rerr # NoErr THEN None ELSE wrapConn(robj, d.options))

\* d.parent.(driver.DriverContext) is asserted without a check; d is a copy
wDriver_OpenConnector(d, rerr, robj) ==
  IF "DriverContext" \notin d.parent.caps THEN Out(<<>>, Panic, None)
  ELSE Out(<< EvReal("DriverContext.OpenConnector", <<>>, <<>>, <<>>, <<>>, rerr) >>,
           rerr,
           IF rerr # NoErr THEN None ELSE [d EXCEPT !.connector = robj])

\* Connect returns &wConn{} itself, not what wrapConn builds
wDriver_Connect(d, ctx, rerr, robj) ==
  IF d.connector.nil THEN Out(<<>>, Panic, None)
  ELSE Out(<< EvReal("Connector.Connect", ctx, <<>>, <<>>, <<>>, rerr) >>,
           rerr,
           IF rerr # NoErr THEN None
           ELSE Object("conn", <<>>, robj, <<>>,
                       connInterface \cup {"NamedValueChecker"}, d.options)
                  @@ [forwards |-> {}])

wDriver_Driver(d) == d

(***************************************************************************)
(* wConn.  rerr is the error the concrete object answers with, robj the    *)
(* concrete object it answers with when rerr is nil.                       *)
(***************************************************************************)
\* Ping that reports success when the concrete connection cannot ping
wConn_PingSilent(c, ctx, rerr) ==
  LET on == Ping \in c.options.operations
      ap == apply(ctx, c.options.Middlewares, Ping, <<>>, <<>>)
      ctx1 == IF on THEN ap.ctx ELSE ctx
      blog == IF on THEN ap.log ELSE <<>>
      finalizers == IF on THEN ap.finalizers ELSE <<>>
  IN IF "Pinger" \in c.parent.caps
     THEN Out(blog \o << EvReal("Pinger.Ping", ctx1, <<>>, <<>>, <<>>, rerr) >>
                   \o deferred(finalizers, rerr),
              rerr, None)
     ELSE Out(blog \o deferred(finalizers, NoErr), NoErr, None)

wConn_Ping(c, ctx, rerr) ==
  LET on == Ping \in c.options.operations
      ap == apply(ctx, c.options.Middlewares, Ping, <<>>, <<>>)
      ctx1 == IF on THEN ap.ctx ELSE ctx
      blog == IF on THEN ap.log ELSE <<>>
      finalizers == IF on THEN ap.finalizers ELSE <<>>
  IN IF "Pinger" \in c.parent.caps
     THEN Out(blog \o << EvReal("Pinger.Ping", ctx1, <<>>, <<>>, <<>>, rerr) >>
                   \o deferred(finalizers, rerr),
              rerr, None)
     ELSE Out(blog \o deferred(finalizers, ErrNoPing), ErrNoPing, None)

\* Exec whose finalizers are told nil when the concrete call returns ErrSkip
wConn_ExecSkipHidden(c, query, args, rerr, robj) ==
  IF "Execer" \notin c.parent.caps THEN Out(<<>>, ErrSkip, None)
  ELSE
    LET ctx == Background
        hasI == c.options.Intercept # NilFn
        ic == Intercept(c.options.Intercept, ctx, Exec, query, namedValues(args))
        ilog == IF hasI THEN << EvIntercept(ctx, Exec, query, namedValues(args)) >>
                ELSE <<>>
        ctx1 == IF hasI THEN ic.ctx ELSE ctx
        args1 == IF hasI THEN values(ic.args) ELSE args
        query1 == IF hasI THEN ic.statement ELSE query
        on == Exec \in c.options.operations
        ap == apply(ctx1, c.options.Middlewares, Exec, query1, namedValues(args1))
        ctx2 == IF on THEN ap.ctx ELSE ctx1
        blog == IF on THEN ap.log ELSE <<>>
        finalizers == IF on THEN ap.finalizers ELSE <<>>
    IN Out(ilog \o blog
                \o << EvReal("Execer.Exec", <<>>, query1, <<>>, args1, rerr) >>
                \o deferred(finalizers, IF rerr = ErrSkip THEN NoErr ELSE rerr),
           rerr,
           IF rerr # NoErr THEN None ELSE wResult(robj, ctx2, c.options))

wConn_Exec(c, query, args, rerr, robj) ==
  IF "Execer" \notin c.parent.caps THEN Out(<<>>, ErrSkip, None)
  ELSE
    LET ctx == Background
        hasI == c.options.Intercept # NilFn
        ic == Intercept(c.options.Intercept, ctx, Exec, query, namedValues(args))
        ilog == IF hasI THEN << EvIntercept(ctx, Exec, query, namedValues(args)) >>
                ELSE <<>>
        ctx1 == IF hasI THEN ic.ctx ELSE ctx
        args1 == IF hasI THEN values(ic.args) ELSE args
        query1 == IF hasI THEN ic.statement ELSE query
        on == Exec \in c.options.operations
        ap == apply(ctx1, c.options.Middlewares, Exec, query1, namedValues(args1))
        ctx2 == IF on THEN ap.ctx ELSE ctx1
        blog == IF on THEN ap.log ELSE <<>>
        finalizers == IF on THEN ap.finalizers ELSE <<>>
    IN Out(ilog \o blog
                \o << EvReal("Execer.Exec", <<>>, query1, <<>>, args1, rerr) >>
                \o deferred(finalizers, rerr),
           rerr,
           IF rerr # NoErr THEN None ELSE wResult(robj, ctx2, c.options))

\* ExecContext that runs the interceptor after the middlewares
wConn_ExecContextLate(c, ctx, query, args, rerr, robj) ==
  IF "ExecerContext" \notin c.parent.caps THEN Out(<<>>, ErrSkip, None)
  ELSE
    LET hasI == c.options.Intercept # NilFn
        on == Exec \in c.options.operations
        ap == apply(ctx, c.options.Middlewares, Exec, query, args)
        ctx1 == IF on THEN ap.ctx ELSE ctx
        blog == IF on THEN ap.log ELSE <<>>
        finalizers == IF on THEN ap.finalizers ELSE <<>>
        ic == Intercept(c.options.Intercept, ctx1, Exec, query, args)
        ilog == IF hasI THEN << EvIntercept(ctx1, Exec, query, args) >> ELSE <<>>
        ctx2 == IF hasI THEN ic.ctx ELSE ctx1
        query1 == IF hasI THEN ic.statement ELSE query
        args1 == IF hasI THEN ic.args ELSE args
    IN Out(blog \o ilog
                \o << EvReal("ExecerContext.ExecContext", ctx2, query1, args1, <<>>, rerr) >>
                \o deferred(finalizers, rerr),
           rerr,
           IF rerr # NoErr THEN None ELSE wResult(robj, ctx2, c.options))

wConn_ExecContext(c, ctx, query, args, rerr, robj) ==
  IF "ExecerContext" \notin c.parent.caps THEN Out(<<>>, ErrSkip, None)
  ELSE
    LET hasI == c.options.Intercept # NilFn
        ic == Intercept(c.options.Intercept, ctx, Exec, query, args)
        ilog == IF hasI THEN << EvIntercept(ctx, Exec, query, args) >> ELSE <<>>
        ctx1 == IF hasI THEN ic.ctx ELSE ctx
        query1 == IF hasI THEN ic.statement ELSE query
        args1 == IF hasI THEN ic.args ELSE args
        on == Exec \in c.options.operations
        ap == apply(ctx1, c.options.Middlewares, Exec, query1, args1)
        ctx2 == IF on THEN ap.ctx ELSE ctx1
        blog == IF on THEN ap.log ELSE <<>>
        finalizers == IF on THEN ap.finalizers ELSE <<>>
    IN Out(ilog \o blog
                \o << EvReal("ExecerContext.ExecContext", ctx2, query1, args1, <<>>, rerr) >>
                \o deferred(finalizers, rerr),
           rerr,
           IF rerr # NoErr THEN None ELSE wResult(robj, ctx2, c.options))

\* Query without the check of the concrete call's error
wConn_QueryUnchecked(c, query, args, rerr, robj) ==
  IF "Queryer" \notin c.parent.caps THEN Out(<<>>, ErrSkip, None)
  ELSE
    LET ctx == Background
        hasI == c.options.Intercept # NilFn
        ic == Intercept(c.options.Intercept, ctx, Query, query, namedValues(args))
        ilog == IF hasI THEN << EvIntercept(ctx, Query, query, namedValues(args)) >>
                ELSE <<>>
        ctx1 == IF hasI THEN ic.ctx ELSE ctx
        query1 == IF hasI THEN ic.statement ELSE query
        args1 == IF hasI THEN values(ic.args) ELSE args
        on == Query \in c.options.operations
        ap == apply(ctx1, c.options.Middlewares, Query, query1, namedValues(args1))
        ctx2 == IF on THEN ap.ctx ELSE ctx1
        blog == IF on THEN ap.log ELSE <<>>
        finalizers == IF on THEN ap.finalizers ELSE <<>>
    IN Out(ilog \o blog
                \o << EvReal("Queryer.Query", <<>>, query1, <<>>, args1, rerr) >>
                \o deferred(finalizers, rerr),
           rerr,
           wrapRows(ctx2, robj, c.options))

wConn_Query(c, query, args, rerr, robj) ==
  IF "Queryer" \notin c.parent.caps THEN Out(<<>>, ErrSkip, None)
  ELSE
    LET ctx == Background
        hasI == c.options.Intercept # NilFn
        ic == Intercept(c.options.Intercept, ctx, Query, query, namedValues(args))
        ilog == IF hasI THEN << EvIntercept(ctx, Query, query, namedValues(args)) >>
                ELSE <<>>
        ctx1 == IF hasI THEN ic.ctx ELSE ctx
        query1 == IF hasI THEN ic.statement ELSE query
        args1 == IF hasI THEN values(ic.args) ELSE args
        on == Query \in c.options.operations
        ap == apply(ctx1, c.options.Middlewares, Query, query1, namedValues(args1))
        ctx2 == IF on THEN ap.ctx ELSE ctx1
        blog == IF on THEN ap.log ELSE <<>>
        finalizers == IF on THEN ap.finalizers ELSE <<>>
    IN Out(ilog \o blog
                \o << EvReal("Queryer.Query", <<>>, query1, <<>>, args1, rerr) >>
                \o deferred(finalizers, rerr),
           rerr,
           IF rerr # NoErr THEN None ELSE wrapRows(ctx2, robj, c.options))

\* QueryContext that hands the middlewares the statement of the caller
wConn_QueryContextStale(c, ctx, query, args, rerr, robj) ==
  IF "QueryerContext" \notin c.parent.caps THEN Out(<<>>, ErrSkip, None)
  ELSE
    LET hasI == c.options.Intercept # NilFn
        ic == Intercept(c.options.Intercept, ctx, Query, query, args)
        ilog == IF hasI THEN << EvIntercept(ctx, Query, query, args) >> ELSE <<>>
        ctx1 == IF hasI THEN ic.ctx ELSE ctx
        query1 == IF hasI THEN ic.statement ELSE query
        args1 == IF hasI THEN ic.args ELSE args
        on == Query \in c.options.operations
        ap == apply(ctx1, c.options.Middlewares, Query, query, args1)
        ctx2 == IF on THEN ap.ctx ELSE ctx1
        blog == IF on THEN ap.log ELSE <<>>
        finalizers == IF on THEN ap.finalizers ELSE <<>>
    IN Out(ilog \o blog
                \o << EvReal("QueryerContext.QueryContext", ctx2, query1, args1, <<>>, rerr) >>
                \o deferred(finalizers, rerr),
           rerr,
           IF rerr # NoErr THEN None ELSE wrapRows(ctx2, robj, c.options))

\* QueryContext that probes the concrete connection after the pipeline
wConn_QueryContextProbingLate(c, ctx, query, args, rerr, robj) ==
  LET hasI == c.options.Intercept # NilFn
      ic == Intercept(c.options.Intercept, ctx, Query, query, args)
      ilog == IF hasI THEN << EvIntercept(ctx, Query, query, args) >> ELSE <<>>
      ctx1 == IF hasI THEN ic.ctx ELSE ctx
      query1 == IF hasI THEN ic.statement ELSE query
      args1 == IF hasI THEN ic.args ELSE args
      on == Query \in c.options.operations
      ap == apply(ctx1, c.options.Middlewares, Query, query1, args1)
      ctx2 == IF on THEN ap.ctx ELSE ctx1
      blog == IF on THEN ap.log ELSE <<>>
      finalizers == IF on THEN ap.finalizers ELSE <<>>
  IN IF "QueryerContext" \notin c.parent.caps
     THEN Out(ilog \o blog \o deferred(finalizers, ErrSkip), ErrSkip, None)
     ELSE Out(ilog \o blog
                   \o << EvReal("QueryerContext.QueryContext", ctx2, query1, args1,
                                <<>>, rerr) >>
                   \o deferred(finalizers, rerr),
              rerr,
              IF rerr # NoErr THEN None ELSE wrapRows(ctx2, robj, c.options))

wConn_QueryContext(c, ctx, query, args, rerr, robj) ==
  IF "QueryerContext" \notin c.parent.caps THEN Out(<<>>, ErrSkip, None)
  ELSE
    LET hasI == c.options.Intercept # NilFn
        ic == Intercept(c.options.Intercept, ctx, Query, query, args)
        ilog == IF hasI THEN << EvIntercept(ctx, Query, query, args) >> ELSE <<>>
        ctx1 == IF hasI THEN ic.ctx ELSE ctx
        query1 == IF hasI THEN ic.statement ELSE query
        args1 == IF hasI THEN ic.args ELSE args
        on == Query \in c.options.operations
        ap == apply(ctx1, c.options.Middlewares, Query, query1, args1)
        ctx2 == IF on THEN ap.ctx ELSE ctx1
        blog == IF on THEN ap.log ELSE <<>>
        finalizers == IF on THEN ap.finalizers ELSE <<>>
    IN Out(ilog \o blog
                \o << EvReal("QueryerContext.QueryContext", ctx2, query1, args1, <<>>, rerr) >>
                \o deferred(finalizers, rerr),
           rerr,
           IF rerr # NoErr THEN None ELSE wrapRows(ctx2, robj, c.options))

\* Prepare that runs the interceptor only when prepare is enabled
wConn_PrepareGated(c, query, rerr, robj) ==
  LET ctx == Background
      on == Prepare \in c.options.operations
      hasI == c.options.Intercept # NilFn /\ on
      ic == Intercept(c.options.Intercept, ctx, Prepare, query, <<>>)
      ilog == IF hasI THEN << EvIntercept(ctx, Prepare, query, <<>>) >> ELSE <<>>
      ctx1 == IF hasI THEN ic.ctx ELSE ctx
      query1 == IF hasI THEN ic.statement ELSE query
      ap == apply(ctx1, c.options.Middlewares, Prepare, query1, <<>>)
      ctx2 == IF on THEN ap.ctx ELSE ctx1
      blog == IF on THEN ap.log ELSE <<>>
      finalizers == IF on THEN ap.finalizers ELSE <<>>
  IN Out(ilog \o blog
              \o << EvReal("Conn.Prepare", <<>>, query1, <<>>, <<>>, rerr) >>
              \o deferred(finalizers, rerr),
         rerr,
         IF rerr # NoErr THEN None ELSE wrapStmt(ctx2, robj, query1, c.options))

wConn_Prepare(c, query, rerr, robj) ==
  LET ctx == Background
      hasI == c.options.Intercept # NilFn
      ic == Intercept(c.options.Intercept, ctx, Prepare, query, <<>>)
      ilog == IF hasI THEN << EvIntercept(ctx, Prepare, query, <<>>) >> ELSE <<>>
      ctx1 == IF hasI THEN ic.ctx ELSE ctx
      query1 == IF hasI THEN ic.statement ELSE query
      on == Prepare \in c.options.operations
      ap == apply(ctx1, c.options.Middlewares, Prepare, query1, <<>>)
      ctx2 == IF on THEN ap.ctx ELSE ctx1
      blog == IF on THEN ap.log ELSE <<>>
      finalizers == IF on THEN ap.finalizers ELSE <<>>
  IN Out(ilog \o blog
              \o << EvReal("Conn.Prepare", <<>>, query1, <<>>, <<>>, rerr) >>
              \o deferred(finalizers, rerr),
         rerr,
         IF rerr # NoErr THEN None ELSE wrapStmt(ctx2, robj, query1, c.options))

wConn_PrepareContext(c, ctx, query, rerr, robj) ==
  LET hasI == c.options.Intercept # NilFn
      ic == Intercept(c.options.Intercept, ctx, Prepare, query, <<>>)
      ilog == IF hasI THEN << EvIntercept(ctx, Prepare, query, <<>>) >> ELSE <<>>
      ctx1 == IF hasI THEN ic.ctx ELSE ctx
      query1 == IF hasI THEN ic.statement ELSE query
      on == Prepare \in c.options.operations
      ap == apply(ctx1, c.options.Middlewares, Prepare, query1, <<>>)
      ctx2 == IF on THEN ap.ctx ELSE ctx1
      blog == IF on THEN ap.log ELSE <<>>
      finalizers == IF on THEN ap.finalizers ELSE <<>>
  IN IF "ConnPrepareContext" \in c.parent.caps
     THEN Out(ilog \o blog
                   \o << EvReal("ConnPrepareContext.PrepareContext", ctx2, query1,
                                <<>>, <<>>, rerr) >>
                   \o deferred(finalizers, rerr),
              rerr,
              IF rerr # NoErr THEN None ELSE wrapStmt(ctx2, robj, query1, c.options))
     \* the concrete connection is not asked: stmt and err keep their zero values
     ELSE Out(ilog \o blog \o deferred(finalizers, NoErr),
              NoErr,
              wrapStmt(ctx2, NilObject, query1, c.options))

\* BeginTx that refuses a concrete connection without ConnBeginTx
wConn_BeginTxStrict(c, ctx, rerr, robj) ==
  LET on == Begin \in c.options.operations
      ap == apply(ctx, c.options.Middlewares, Begin, <<>>, <<>>)
      ctx1 == IF on THEN ap.ctx ELSE ctx
      blog == IF on THEN ap.log ELSE <<>>
      finalizers == IF on THEN ap.finalizers ELSE <<>>
  IN IF "ConnBeginTx" \in c.parent.caps
     THEN Out(blog \o << EvReal("ConnBeginTx.BeginTx", ctx1, <<>>, <<>>, <<>>, rerr) >>
                   \o deferred(finalizers, rerr),
              rerr,
              IF rerr # NoErr THEN None ELSE wTx(robj, ctx1, c.options))
     ELSE Out(blog \o deferred(finalizers, ErrSkip), ErrSkip, None)

wConn_BeginTx(c, ctx, rerr, robj) ==
  LET on == Begin \in c.options.operations
      ap == apply(ctx, c.options.Middlewares, Begin, <<>>, <<>>)
      ctx1 == IF on THEN ap.ctx ELSE ctx
      blog == IF on THEN ap.log ELSE <<>>
      finalizers == IF on THEN ap.finalizers ELSE <<>>
      real == IF "ConnBeginTx" \in c.parent.caps
              THEN EvReal("ConnBeginTx.BeginTx", ctx1, <<>>, <<>>, <<>>, rerr)
              ELSE EvReal("Conn.Begin", <<>>, <<>>, <<>>, <<>>, rerr)
  IN Out(blog \o << real >> \o deferred(finalizers, rerr),
         rerr,
         IF rerr # NoErr THEN None ELSE wTx(robj, ctx1, c.options))

wConn_Begin(c, rerr, robj) == wConn_BeginTx(c, Background, rerr, robj)

(***************************************************************************)
(* wResult.                                                                *)
(***************************************************************************)
wResult_LastInsertId(r, rerr) ==
  LET on == LastInsertID \in r.options.operations
      ap == apply(r.ctx, r.options.Middlewares, LastInsertID, <<>>, <<>>)
      blog == IF on THEN ap.log ELSE <<>>
      finalizers == IF on THEN ap.finalizers ELSE <<>>
  IN Out(blog \o << EvReal("Result.LastInsertId", <<>>, <<>>, <<>>, <<>>, rerr) >>
              \o deferred(finalizers, rerr),
         rerr, None)

wResult_RowsAffected(r, rerr) ==
  LET on == RowsAffected \in r.options.operations
      ap == apply(r.ctx, r.options.Middlewares, RowsAffected, <<>>, <<>>)
      blog == IF on THEN ap.log ELSE <<>>
      finalizers == IF on THEN ap.finalizers ELSE <<>>
  IN Out(blog \o << EvReal("Result.RowsAffected", <<>>, <<>>, <<>>, <<>>, rerr) >>
              \o deferred(finalizers, rerr),
         rerr, None)

(***************************************************************************)
(* wStmt.  The receiver is a copy: assignments to s.ctx end with the call. *)
(* A method called on a nil parent panics; the deferred finalizers then    *)
(* run with the named result err still nil.                                *)
(***************************************************************************)
\* Exec whose middlewares receive the statement its interceptor returned
wStmt_ExecRewriting(s, args, rerr, robj) ==
  LET hasI == s.options.Intercept # NilFn
      ic == Intercept(s.options.Intercept, s.ctx, StmtExec, s.query, namedValues(args))
      ilog == IF hasI THEN << EvIntercept(s.ctx, StmtExec, s.query, namedValues(args)) >>
              ELSE <<>>
      ctx1 == IF hasI THEN ic.ctx ELSE s.ctx
      args1 == IF hasI THEN values(ic.args) ELSE args
      query1 == IF hasI THEN ic.statement ELSE s.query
      on == StmtExec \in s.options.operations
      ap == apply(ctx1, s.options.Middlewares, StmtExec, query1, namedValues(args1))
      ctx2 == IF on THEN ap.ctx ELSE ctx1
      blog == IF on THEN ap.log ELSE <<>>
      finalizers == IF on THEN ap.finalizers ELSE <<>>
  IN IF s.parent.nil
     THEN Out(ilog \o blog \o deferred(finalizers, NoErr), Panic, None)
     ELSE Out(ilog \o blog
                   \o << EvReal("Stmt.Exec", <<>>, <<>>, <<>>, args1, rerr) >>
                   \o deferred(finalizers, rerr),
              rerr,
              IF rerr # NoErr THEN None ELSE wResult(robj, ctx2, s.options))

wStmt_Exec(s, args, rerr, robj) ==
  LET hasI == s.options.Intercept # NilFn
      ic == Intercept(s.options.Intercept, s.ctx, StmtExec, s.query, namedValues(args))
      ilog == IF hasI THEN << EvIntercept(s.ctx, StmtExec, s.query, namedValues(args)) >>
              ELSE <<>>
      ctx1 == IF hasI THEN ic.ctx ELSE s.ctx
      args1 == IF hasI THEN values(ic.args) ELSE args
      on == StmtExec \in s.options.operations
      ap == apply(ctx1, s.options.Middlewares, StmtExec, s.query, namedValues(args1))
      ctx2 == IF on THEN ap.ctx ELSE ctx1
      blog == IF on THEN ap.log ELSE <<>>
      finalizers == IF on THEN ap.finalizers ELSE <<>>
  IN IF s.parent.nil
     THEN Out(ilog \o blog \o deferred(finalizers, NoErr), Panic, None)
     ELSE Out(ilog \o blog
                   \o << EvReal("Stmt.Exec", <<>>, <<>>, <<>>, args1, rerr) >>
                   \o deferred(finalizers, rerr),
              rerr,
              IF rerr # NoErr THEN None ELSE wResult(robj, ctx2, s.options))

\* Close that reports the tag of the rows' Close
wStmt_CloseAsRows(s, rerr) ==
  LET on == StmtClose \in s.options.operations
      ap == apply(s.ctx, s.options.Middlewares, RowsClose, s.query, <<>>)
      blog == IF on THEN ap.log ELSE <<>>
      finalizers == IF on THEN ap.finalizers ELSE <<>>
  IN IF s.parent.nil
     THEN Out(blog \o deferred(finalizers, NoErr), Panic, None)
     ELSE Out(blog \o << EvReal("Stmt.Close", <<>>, <<>>, <<>>, <<>>, rerr) >>
                   \o deferred(finalizers, rerr),
              rerr, None)

wStmt_Close(s, rerr) ==
  LET on == StmtClose \in s.options.operations
      ap == apply(s.ctx, s.options.Middlewares, StmtClose, s.query, <<>>)
      blog == IF on THEN ap.log ELSE <<>>
      finalizers == IF on THEN ap.finalizers ELSE <<>>
  IN IF s.parent.nil
     THEN Out(blog \o deferred(finalizers, NoErr), Panic, None)
     ELSE Out(blog \o << EvReal("Stmt.Close", <<>>, <<>>, <<>>, <<>>, rerr) >>
                   \o deferred(finalizers, rerr),
              rerr, None)

\* -1 when there is no parent, else the parent's answer n
wStmt_NumInput(s, n) == IF s.parent.nil THEN -1 ELSE n

\* Query that runs the middlewares whatever the enabled operations are
wStmt_QueryHooked(s, args, rerr, robj) ==
  LET hasI == s.options.Intercept # NilFn
      ic == Intercept(s.options.Intercept, s.ctx, StmtQuery, s.query, namedValues(args))
      ilog == IF hasI THEN << EvIntercept(s.ctx, StmtQuery, s.query, namedValues(args)) >>
              ELSE <<>>
      ctx1 == IF hasI THEN ic.ctx ELSE s.ctx
      args1 == IF hasI THEN values(ic.args) ELSE args
      ap == apply(ctx1, s.options.Middlewares, StmtQuery, s.query, namedValues(args1))
      ctx2 == ap.ctx
      blog == ap.log
      finalizers == ap.finalizers
  IN IF s.parent.nil
     THEN Out(ilog \o blog \o deferred(finalizers, NoErr), Panic, None)
     ELSE Out(ilog \o blog
                   \o << EvReal("Stmt.Query", <<>>, <<>>, <<>>, args1, rerr) >>
                   \o deferred(finalizers, rerr),
              rerr,
              IF rerr # NoErr THEN None ELSE wrapRows(ctx2, robj, s.options))

wStmt_Query(s, args, rerr, robj) ==
  LET hasI == s.options.Intercept # NilFn
      ic == Intercept(s.options.Intercept, s.ctx, StmtQuery, s.query, namedValues(args))
      ilog == IF hasI THEN << EvIntercept(s.ctx, StmtQuery, s.query, namedValues(args)) >>
              ELSE <<>>
      ctx1 == IF hasI THEN ic.ctx ELSE s.ctx
      args1 == IF hasI THEN values(ic.args) ELSE args
      on == StmtQuery \in s.options.operations
      ap == apply(ctx1, s.options.Middlewares, StmtQuery, s.query, namedValues(args1))
      ctx2 == IF on THEN ap.ctx ELSE ctx1
      blog == IF on THEN ap.log ELSE <<>>
      finalizers == IF on THEN ap.finalizers ELSE <<>>
  IN IF s.parent.nil
     THEN Out(ilog \o blog \o deferred(finalizers, NoErr), Panic, None)
     ELSE Out(ilog \o blog
                   \o << EvReal("Stmt.Query", <<>>, <<>>, <<>>, args1, rerr) >>
                   \o deferred(finalizers, rerr),
              rerr,
              IF rerr # NoErr THEN None ELSE wrapRows(ctx2, robj, s.options))

\* the interceptor is handed the stored s.ctx, not the caller's ctx
wStmt_ExecContext(s, ctx, args, rerr, robj) ==
  LET hasI == s.options.Intercept # NilFn
      ic == Intercept(s.options.Intercept, s.ctx, StmtExec, s.query, args)
      ilog == IF hasI THEN << EvIntercept(s.ctx, StmtExec, s.query, args) >> ELSE <<>>
      ctx1 == IF hasI THEN ic.ctx ELSE ctx
      args1 == IF hasI THEN ic.args ELSE args
      on == StmtExec \in s.options.operations
      ap == apply(ctx1, s.options.Middlewares, StmtExec, s.query, args1)
      ctx2 == IF on THEN ap.ctx ELSE ctx1
      blog == IF on THEN ap.log ELSE <<>>
      finalizers == IF on THEN ap.finalizers ELSE <<>>
  IN IF "StmtExecContext" \notin s.parent.caps
     THEN Out(ilog \o blog \o deferred(finalizers, ErrNoExecContext),
              ErrNoExecContext, None)
     ELSE Out(ilog \o blog
                   \o << EvReal("StmtExecContext.ExecContext", ctx2, <<>>, args1, <<>>, rerr) >>
                   \o deferred(finalizers, rerr),
              rerr,
              IF rerr # NoErr THEN None ELSE wResult(robj, ctx2, s.options))

wStmt_QueryContext(s, ctx, args, rerr, robj) ==
  LET hasI == s.options.Intercept # NilFn
      ic == Intercept(s.options.Intercept, ctx, StmtQuery, s.query, args)
      ilog == IF hasI THEN << EvIntercept(ctx, StmtQuery, s.query, args) >> ELSE <<>>
      ctx1 == IF hasI THEN ic.ctx ELSE ctx
      args1 == IF hasI THEN ic.args ELSE args
      on == StmtQuery \in s.options.operations
      ap == apply(ctx1, s.options.Middlewares, StmtQuery, s.query, args1)
      ctx2 == IF on THEN ap.ctx ELSE ctx1
      blog == IF on THEN ap.log ELSE <<>>
      finalizers == IF on THEN ap.finalizers ELSE <<>>
  IN IF "StmtQueryContext" \notin s.parent.caps
     THEN Out(ilog \o blog \o deferred(finalizers, ErrNoQueryContext),
              ErrNoQueryContext, None)
     ELSE Out(ilog \o blog
                   \o << EvReal("StmtQueryContext.QueryContext", ctx2, <<>>, args1, <<>>, rerr) >>
                   \o deferred(finalizers, rerr),
              rerr,
              IF rerr # NoErr THEN None ELSE wrapRows(ctx2, robj, s.options))

(***************************************************************************)
(* wRows.                                                                  *)
(***************************************************************************)
wRows_Close(r, rerr) ==
  LET on == RowsClose \in r.options.operations
      ap == apply(r.ctx, r.options.Middlewares, RowsClose, <<>>, <<>>)
      blog == IF on THEN ap.log ELSE <<>>
      finalizers == IF on THEN ap.finalizers ELSE <<>>
  IN Out(blog \o << EvReal("Rows.Close", <<>>, <<>>, <<>>, <<>>, rerr) >>
              \o deferred(finalizers, rerr),
         rerr, None)

\* Next whose middlewares start from a fresh context
wRows_NextFresh(r, rerr) ==
  LET on == RowsNext \in r.options.operations
      ap == apply(Background, r.options.Middlewares, RowsNext, <<>>, <<>>)
      blog == IF on THEN ap.log ELSE <<>>
      finalizers == IF on THEN ap.finalizers ELSE <<>>
  IN Out(blog \o << EvReal("Rows.Next", <<>>, <<>>, <<>>, <<>>, rerr) >>
              \o deferred(finalizers, rerr),
         rerr, None)

wRows_Next(r, rerr) ==
  LET on == RowsNext \in r.options.operations
      ap == apply(r.ctx, r.options.Middlewares, RowsNext, <<>>, <<>>)
      blog == IF on THEN ap.log ELSE <<>>
      finalizers == IF on THEN ap.finalizers ELSE <<>>
  IN Out(blog \o << EvReal("Rows.Next", <<>>, <<>>, <<>>, <<>>, rerr) >>
              \o deferred(finalizers, rerr),
         rerr, None)

(***************************************************************************)
(* wTx.                                                                    *)
(***************************************************************************)
wTx_Commit(t, rerr) ==
  LET on == Commit \in t.options.operations
      ap == apply(t.ctx, t.options.Middlewares, Commit, <<>>, <<>>)
      blog == IF on THEN ap.log ELSE <<>>
      finalizers == IF on THEN ap.finalizers ELSE <<>>
  IN Out(blog \o << EvReal("Tx.Commit", <<>>, <<>>, <<>>, <<>>, rerr) >>
              \o deferred(finalizers, rerr),
         rerr, None)

wTx_Rollback(t, rerr) ==
  LET on == Rollback \in t.options.operations
      ap == apply(t.ctx, t.options.Middlewares, Rollback, <<>>, <<>>)
      blog == IF on THEN ap.log ELSE <<>>
      finalizers == IF on THEN ap.finalizers ELSE <<>>
  IN Out(blog \o << EvReal("Tx.Rollback", <<>>, <<>>, <<>>, <<>>, rerr) >>
              \o deferred(finalizers, rerr),
         rerr, None)

(***************************************************************************)
(* The state: one decorated connection, the decorated object its caller    *)
(* holds (a statement, a result, rows or a transaction, the one a call     *)
(* returned last), and the last decorated call: its arguments, its trace   *)
(* and what it returned.                                                   *)
(***************************************************************************)
VARIABLES conn, held, call, log, ret, drivers, regMu, procs

vars == << conn, held, call, log, ret, drivers, regMu, procs >>

\* the registry of database/sql, the mutex of this package, and the
\* goroutines that call Register
registry == << drivers, regMu, procs >>

\* what a decorated call on a connection and its objects writes
session == << conn, held, call, log, ret >>

(***************************************************************************)
(* Inputs.                                                                 *)
(***************************************************************************)
\* two families of middleware lists: one whose members keep the context
\* (and every other one supplies no finalizer), one that derives contexts
PlainAt(i) == IF i % 2 = 1 THEN "obs" ELSE "bare"
SpanAt(i) == IF i % 2 = 1 THEN "span" ELSE "obs"

MiddlewareLists ==
  { [i \in 1..n |-> PlainAt(i)] : n \in 0..MaxMws }
    \cup { [i \in 1..n |-> SpanAt(i)] : n \in 0..MaxMws }

Interceptors == { NilFn } \cup InterceptKinds

AllOperations ==
  << Ping, Exec, Query, Prepare, Begin, LastInsertID, RowsAffected, StmtExec,
     StmtQuery, StmtClose, RowsClose, RowsNext, Commit, Rollback >>

\* the Operations a configuration selects: none, or the two the default
\* leaves out
Selections == { <<>>, << Ping, RowsNext >> }

\* the concrete connections: every optional role, or none
ConnCapSets == { ConnRoles, {} }

\* the concrete statements
StmtCapSets == { {}, {"StmtExecContext", "StmtQueryContext"} }

CallerCtxs == { << "caller" >> }
Statements == { << "q" >> }
ValueArgs == { <<>>, << "1" >> }
NamedArgs == { <<>>, << NamedValue("", 1, "1") >> }
DriverErrs == { NoErr, ErrFailed }
FastPathErrs == { NoErr, ErrFailed, ErrSkip }
NextErrs == { NoErr, EOF }

\* a call: the method, its operation tag, the receiver and the arguments
Call(m, op, recv, ctx, q, args, vals) ==
  [m |-> m, op |-> op, recv |-> recv, ctx |-> ctx, stmt |-> q, args |-> args,
   vals |-> vals]

Returned(out) == [err |-> out.err, obj |-> out.obj]

\* the caller of a statement method goes on with the object returned, or
\* keeps the statement to execute it again
Holds(take, old, out) == IF take /\ out.obj.kind # "none" THEN out.obj ELSE old

(***************************************************************************)
(* Registration: the names of RegisterWithSource and the registry of       *)
(* database/sql.                                                           *)
(***************************************************************************)
\* for i := int64(0); i < 100; i++
MaxSlots == 100

\* strconv.FormatInt(i, 10): the decimal digits of i, most significant first
RECURSIVE FormatInt(_)
FormatInt(i) == IF i < 10 THEN << i >> ELSE FormatInt(i \div 10) \o << i % 10 >>

\* driverName + "-wrap-" + strconv.FormatInt(i, 10)
regName(driverName, i) == driverName \o << "-wrap-" >> \o FormatInt(i)

\* the for loop that starts at 1
RECURSIVE scanFromOne(_, _, _)
scanFromOne(driverName, names, i) ==
  LET j == IF i = 0 THEN 1 ELSE i
  IN IF j >= MaxSlots THEN MaxSlots
     ELSE IF regName(driverName, j) \notin names THEN j
     ELSE scanFromOne(driverName, names, j + 1)

\* the for loop from i on: the first index whose name is not among
\* sql.Drivers(), or MaxSlots when every slot is taken
RECURSIVE scan(_, _, _)
scan(driverName, names, i) ==
  IF i >= MaxSlots THEN MaxSlots
  ELSE IF regName(driverName, i) \notin names THEN i
  ELSE scan(driverName, names, i + 1)

ErrUnknownDriver == "sql: unknown driver (forgotten import?)"
ErrSlots == "unable to register driver, all slots have been taken"

\* the names callers register under: two registered drivers and one that
\* was never registered
BaseNames == { << "pg" >>, << "my" >> }
DriverNames == BaseNames \cup { << "absent" >> }

\* the options of a registration
RegOptions == { << WithMiddleware(<< "obs" >>) >> }

\* sql.Register(name, d) on registry r
Register(r, name, d) == [n \in DOMAIN r \cup {name} |-> IF n = name THEN d ELSE r[n]]

\* the registry after the imports of the program: pg (a driver with
\* OpenConnector) and my (one without)
Imported ==
  [n \in BaseNames |->
     IF n = << "pg" >> THEN Concrete({"DriverContext"}) ELSE Concrete({})]

\* the registry with the wrapped names of driverName at the indexes taken
Taken(driverName, taken) ==
  [n \in BaseNames \cup { regName(driverName, i) : i \in taken } |->
     IF n \in BaseNames THEN Imported[n]
     ELSE Wrap(Imported[driverName], << WithMiddleware(<< "obs" >>) >>)]

\* registries a program can be in when a registration starts: fresh, one
\* slot taken out of order, one slot left, no slot left
Registries ==
  { Imported,
    Taken(<< "pg" >>, {1}),
    Taken(<< "pg" >>, 0..(MaxSlots - 2)),
    Taken(<< "my" >>, 0..(MaxSlots - 1)) }

Unlocked == 0
Procs == 1..NProcs

\* a call of RegisterWithSource that has not begun
IdleProc ==
  [pc |-> "idle", driverName |-> <<>>, options |-> <<>>, dri |-> NilObject,
   regName |-> <<>>, before |-> {}, added |-> {}, opens |-> 0,
   name |-> <<>>, err |-> NoErr]

Quiet(r) ==
  /\ drivers = r
  /\ regMu = Unlocked
  /\ procs = [p \in Procs |-> IdleProc]

(***************************************************************************)
(* Init: Wrap(d, options...) and wDriver.Open over a concrete connection.  *)
(***************************************************************************)
Configured(mws, i, sel, caps) ==
  LET po == prepareOptions(<< WithMiddleware(mws), WithInterceptor(i),
                              WithOperations(sel) >>)
  IN /\ po.ok
     /\ conn = wrapConn(Concrete(caps), po.o)
     /\ held = None
     /\ call = Call("", "", None, <<>>, <<>>, <<>>, <<>>)
     /\ log = <<>>
     /\ ret = [err |-> NoErr, obj |-> None]
     /\ Quiet(Imported)

Init ==
  \E mws \in MiddlewareLists, i \in Interceptors, sel \in Selections,
     caps \in ConnCapSets :
    Configured(mws, i, sel, caps)

(***************************************************************************)
(* One action per decorated method.                                        *)
(***************************************************************************)
ConnPing ==
  \E ctx \in CallerCtxs, rerr \in DriverErrs :
    LET out == wConn_Ping(conn, ctx, rerr)
    IN /\ call' = Call("Conn.Ping", Ping, conn, ctx, <<>>, <<>>, <<>>)
       /\ log' = out.log
       /\ ret' = Returned(out)
       /\ UNCHANGED << conn, held, registry >>

ConnExec ==
  \E q \in Statements, args \in ValueArgs, rerr \in FastPathErrs :
    LET out == wConn_Exec(conn, q, args, rerr, Concrete({}))
    IN /\ call' = Call("Conn.Exec", Exec, conn, <<>>, q, <<>>, args)
       /\ log' = out.log
       /\ ret' = Returned(out)
       /\ held' = out.obj
       /\ UNCHANGED << conn, registry >>

ConnExecContext ==
  \E ctx \in CallerCtxs, q \in Statements, args \in NamedArgs, rerr \in FastPathErrs :
    LET out == wConn_ExecContext(conn, ctx, q, args, rerr, Concrete({}))
    IN /\ call' = Call("Conn.ExecContext", Exec, conn, ctx, q, args, <<>>)
       /\ log' = out.log
       /\ ret' = Returned(out)
       /\ held' = out.obj
       /\ UNCHANGED << conn, registry >>

ConnQuery ==
  \E q \in Statements, args \in ValueArgs, rerr \in FastPathErrs :
    LET out == wConn_Query(conn, q, args, rerr, Concrete({}))
    IN /\ call' = Call("Conn.Query", Query, conn, <<>>, q, <<>>, args)
       /\ log' = out.log
       /\ ret' = Returned(out)
       /\ held' = out.obj
       /\ UNCHANGED << conn, registry >>

ConnQueryContext ==
  \E ctx \in CallerCtxs, q \in Statements, args \in NamedArgs, rerr \in FastPathErrs :
    LET out == wConn_QueryContext(conn, ctx, q, args, rerr, Concrete({}))
    IN /\ call' = Call("Conn.QueryContext", Query, conn, ctx, q, args, <<>>)
       /\ log' = out.log
       /\ ret' = Returned(out)
       /\ held' = out.obj
       /\ UNCHANGED << conn, registry >>

ConnPrepare ==
  \E q \in Statements, rerr \in DriverErrs, caps \in StmtCapSets :
    LET out == wConn_Prepare(conn, q, rerr, Concrete(caps))
    IN /\ call' = Call("Conn.Prepare", Prepare, conn, <<>>, q, <<>>, <<>>)
       /\ log' = out.log
       /\ ret' = Returned(out)
       /\ held' = out.obj
       /\ UNCHANGED << conn, registry >>

ConnPrepareContext ==
  \E ctx \in CallerCtxs, q \in Statements, rerr \in DriverErrs, caps \in StmtCapSets :
    LET out == wConn_PrepareContext(conn, ctx, q, rerr, Concrete(caps))
    IN /\ call' = Call("Conn.PrepareContext", Prepare, conn, ctx, q, <<>>, <<>>)
       /\ log' = out.log
       /\ ret' = Returned(out)
       /\ held' = out.obj
       /\ UNCHANGED << conn, registry >>

ConnBegin ==
  \E rerr \in DriverErrs :
    LET out == wConn_Begin(conn, rerr, Concrete({}))
    IN /\ call' = Call("Conn.Begin", Begin, conn, <<>>, <<>>, <<>>, <<>>)
       /\ log' = out.log
       /\ ret' = Returned(out)
       /\ held' = out.obj
       /\ UNCHANGED << conn, registry >>

ConnBeginTx ==
  \E ctx \in CallerCtxs, rerr \in DriverErrs :
    LET out == wConn_BeginTx(conn, ctx, rerr, Concrete({}))
    IN /\ call' = Call("Conn.BeginTx", Begin, conn, ctx, <<>>, <<>>, <<>>)
       /\ log' = out.log
       /\ ret' = Returned(out)
       /\ held' = out.obj
       /\ UNCHANGED << conn, registry >>

ResultLastInsertId ==
  /\ held.kind = "result"
  /\ \E rerr \in DriverErrs :
       LET out == wResult_LastInsertId(held, rerr)
       IN /\ call' = Call("Result.LastInsertId", LastInsertID, held, <<>>, <<>>, <<>>, <<>>)
          /\ log' = out.log
          /\ ret' = Returned(out)
          /\ UNCHANGED << conn, held, registry >>

ResultRowsAffected ==
  /\ held.kind = "result"
  /\ \E rerr \in DriverErrs :
       LET out == wResult_RowsAffected(held, rerr)
       IN /\ call' = Call("Result.RowsAffected", RowsAffected, held, <<>>, <<>>, <<>>, <<>>)
          /\ log' = out.log
          /\ ret' = Returned(out)
          /\ UNCHANGED << conn, held, registry >>

StmtExecLegacy ==
  /\ held.kind = "stmt"
  /\ \E args \in ValueArgs, rerr \in DriverErrs, take \in BOOLEAN :
       LET out == wStmt_Exec(held, args, rerr, Concrete({}))
       IN /\ call' = Call("Stmt.Exec", StmtExec, held, <<>>, <<>>, <<>>, args)
          /\ log' = out.log
          /\ ret' = Returned(out)
          /\ held' = Holds(take, held, out)
          /\ UNCHANGED << conn, registry >>

StmtQueryLegacy ==
  /\ held.kind = "stmt"
  /\ \E args \in ValueArgs, rerr \in DriverErrs, take \in BOOLEAN :
       LET out == wStmt_Query(held, args, rerr, Concrete({}))
       IN /\ call' = Call("Stmt.Query", StmtQuery, held, <<>>, <<>>, <<>>, args)
          /\ log' = out.log
          /\ ret' = Returned(out)
          /\ held' = Holds(take, held, out)
          /\ UNCHANGED << conn, registry >>

\* callable only on a statement that advertises StmtExecContext
StmtExecContext ==
  /\ held.kind = "stmt"
  /\ "StmtExecContext" \in held.roles
  /\ \E ctx \in CallerCtxs, args \in NamedArgs, rerr \in DriverErrs, take \in BOOLEAN :
       LET out == wStmt_ExecContext(held, ctx, args, rerr, Concrete({}))
       IN /\ call' = Call("Stmt.ExecContext", StmtExec, held, ctx, <<>>, args, <<>>)
          /\ log' = out.log
          /\ ret' = Returned(out)
          /\ held' = Holds(take, held, out)
          /\ UNCHANGED << conn, registry >>

\* callable only on a statement that advertises StmtQueryContext
StmtQueryContext ==
  /\ held.kind = "stmt"
  /\ "StmtQueryContext" \in held.roles
  /\ \E ctx \in CallerCtxs, args \in NamedArgs, rerr \in DriverErrs, take \in BOOLEAN :
       LET out == wStmt_QueryContext(held, ctx, args, rerr, Concrete({}))
       IN /\ call' = Call("Stmt.QueryContext", StmtQuery, held, ctx, <<>>, args, <<>>)
          /\ log' = out.log
          /\ ret' = Returned(out)
          /\ held' = Holds(take, held, out)
          /\ UNCHANGED << conn, registry >>

\* the caller drops a statement it has closed
StmtCloseCall ==
  /\ held.kind = "stmt"
  /\ \E rerr \in DriverErrs :
       LET out == wStmt_Close(held, rerr)
       IN /\ call' = Call("Stmt.Close", StmtClose, held, <<>>, <<>>, <<>>, <<>>)
          /\ log' = out.log
          /\ ret' = Returned(out)
          /\ held' = None
          /\ UNCHANGED << conn, registry >>

RowsNextCall ==
  /\ held.kind = "rows"
  /\ \E rerr \in NextErrs :
       LET out == wRows_Next(held, rerr)
       IN /\ call' = Call("Rows.Next", RowsNext, held, <<>>, <<>>, <<>>, <<>>)
          /\ log' = out.log
          /\ ret' = Returned(out)
          /\ UNCHANGED << conn, held, registry >>

\* the caller drops rows it has closed
RowsCloseCall ==
  /\ held.kind = "rows"
  /\ \E rerr \in DriverErrs :
       LET out == wRows_Close(held, rerr)
       IN /\ call' = Call("Rows.Close", RowsClose, held, <<>>, <<>>, <<>>, <<>>)
          /\ log' = out.log
          /\ ret' = Returned(out)
          /\ held' = None
          /\ UNCHANGED << conn, registry >>

\* a transaction ends with Commit or Rollback
TxCommit ==
  /\ held.kind = "tx"
  /\ \E rerr \in DriverErrs :
       LET out == wTx_Commit(held, rerr)
       IN /\ call' = Call("Tx.Commit", Commit, held, <<>>, <<>>, <<>>, <<>>)
          /\ log' = out.log
          /\ ret' = Returned(out)
          /\ held' = None
          /\ UNCHANGED << conn, registry >>

TxRollback ==
  /\ held.kind = "tx"
  /\ \E rerr \in DriverErrs :
       LET out == wTx_Rollback(held, rerr)
       IN /\ call' = Call("Tx.Rollback", Rollback, held, <<>>, <<>>, <<>>, <<>>)
          /\ log' = out.log
          /\ ret' = Returned(out)
          /\ held' = None
          /\ UNCHANGED << conn, registry >>

Next ==
  \/ ConnPing
  \/ ConnExec
  \/ ConnExecContext
  \/ ConnQuery
  \/ ConnQueryContext
  \/ ConnPrepare
  \/ ConnPrepareContext
  \/ ConnBegin
  \/ ConnBeginTx
  \/ ResultLastInsertId
  \/ ResultRowsAffected
  \/ StmtExecLegacy
  \/ StmtQueryLegacy
  \/ StmtExecContext
  \/ StmtQueryContext
  \/ StmtCloseCall
  \/ RowsNextCall
  \/ RowsCloseCall
  \/ TxCommit
  \/ TxRollback

Spec == Init /\ [][Next]_vars

(***************************************************************************)
(* The same wrapper under a wider choice of WithOperations: every single   *)
(* operation, every set that leaves one operation out, all operations, the *)
(* selection of the README, and one that names an operation twice.         *)
(***************************************************************************)
Without(op) == SelectSeq(AllOperations, LAMBDA o : o # op)

OperationSelections ==
  { << op >> : op \in Operation }
    \cup { Without(op) : op \in Operation }
    \cup { AllOperations, << Query, StmtQuery, Exec, StmtExec >>,
           << Ping, Exec, Ping >> }

InitOps ==
  \E sel \in OperationSelections, caps \in ConnCapSets :
    Configured([i \in 1..MaxMws |-> PlainAt(i)], NilFn, sel, caps)

SpecOps == InitOps /\ [][Next]_vars

(***************************************************************************)
(* The wrapper over concrete connections that have the legacy roles only,  *)
(* or the context-aware roles only, with the methods of wStmt called as    *)
(* code of this package can call them: on a wStmt whose parent lacks the   *)
(* role, which wrapStmt keeps from every other caller.                     *)
(***************************************************************************)
PartialCapSets ==
  { {"Execer", "Queryer"},
    {"Pinger", "ExecerContext", "QueryerContext", "ConnPrepareContext",
     "ConnBeginTx"} }

InitRoles ==
  \E i \in Interceptors, sel \in { <<>>, AllOperations }, caps \in PartialCapSets :
    Configured([j \in 1..MaxMws |-> PlainAt(j)], i, sel, caps)

StmtExecContextDirect ==
  /\ held.kind = "stmt"
  /\ "StmtExecContext" \notin held.roles
  /\ \E ctx \in CallerCtxs, args \in NamedArgs, rerr \in DriverErrs :
       LET out == wStmt_ExecContext(held, ctx, args, rerr, Concrete({}))
       IN /\ call' = Call("Stmt.ExecContext", StmtExec, held, ctx, <<>>, args, <<>>)
          /\ log' = out.log
          /\ ret' = Returned(out)
          /\ UNCHANGED << conn, held, registry >>

StmtQueryContextDirect ==
  /\ held.kind = "stmt"
  /\ "StmtQueryContext" \notin held.roles
  /\ \E ctx \in CallerCtxs, args \in NamedArgs, rerr \in DriverErrs :
       LET out == wStmt_QueryContext(held, ctx, args, rerr, Concrete({}))
       IN /\ call' = Call("Stmt.QueryContext", StmtQuery, held, ctx, <<>>, args, <<>>)
          /\ log' = out.log
          /\ ret' = Returned(out)
          /\ UNCHANGED << conn, held, registry >>

NextRoles ==
  \/ Next
  \/ StmtExecContextDirect
  \/ StmtQueryContextDirect

SpecRoles == InitRoles /\ [][NextRoles]_vars

(***************************************************************************)
(* WrapConn under every list of at most MaxOptions options: whole-options  *)
(* replacement, middleware append, interceptor set, operation selection.   *)
(***************************************************************************)
OptionPool ==
  { WithMiddleware(<< "obs" >>),
    WithMiddleware(<< "span", "bare" >>),
    WithInterceptor("rewrite"),
    WithInterceptor("name"),
    WithOperations(<< Ping >>),
    WithOperations(<< Exec, Query >>),
    WithOptions([ZeroOptions EXCEPT !.Middlewares = << "bare" >>,
                                    !.Intercept = "name",
                                    !.Operations = << Begin >>]) }

OptionLists == UNION { [1..n -> OptionPool] : n \in 0..MaxOptions }

WrapConnWith ==
  /\ call.m = ""
  /\ \E options \in OptionLists :
       /\ call' = Call("WrapConn", "", Concrete(ConnRoles), <<>>, <<>>, options, <<>>)
       /\ log' = <<>>
       /\ ret' = [err |-> NoErr, obj |-> WrapConn(Concrete(ConnRoles), options)]
       /\ conn' = WrapConn(Concrete(ConnRoles), options)
       /\ held' = None
       /\ UNCHANGED registry

InitOptions ==
  /\ conn = None
  /\ held = None
  /\ call = Call("", "", None, <<>>, <<>>, <<>>, <<>>)
  /\ log = <<>>
  /\ ret = [err |-> NoErr, obj |-> None]
  /\ Quiet(Imported)

NextOptions == WrapConnWith

SpecOptions == InitOptions /\ [][NextOptions]_vars

(***************************************************************************)
(* A wrapped driver in the registry of database/sql, the connections it    *)
(* opens (by Open, or by OpenConnector and Connect) and all that the       *)
(* methods of a connection opened hand out.                                *)
(***************************************************************************)
DriverOptions ==
  { << WithMiddleware(<< "obs", "bare" >>) >>,
    << WithInterceptor("rewrite"), WithOperations(<< Ping, RowsNext >>) >>,
    << WithMiddleware(<< "span" >>), WithInterceptor("name"),
       WithOperations(AllOperations) >> }

\* the names of the registry that a wrapped driver is registered under
WrappedNames == { n \in DOMAIN drivers : "kind" \in DOMAIN drivers[n] }

InitDriver ==
  /\ conn = None
  /\ held = None
  /\ call = Call("", "", None, <<>>, <<>>, <<>>, <<>>)
  /\ log = <<>>
  /\ ret = [err |-> NoErr, obj |-> None]
  /\ \E driverName \in BaseNames, options \in DriverOptions :
       drivers = Register(Imported, regName(driverName, 0),
                          Wrap(Imported[driverName], options))
  /\ regMu = Unlocked
  /\ procs = [p \in Procs |-> IdleProc]

DriverOpen ==
  /\ conn = None
  /\ \E n \in WrappedNames, rerr \in DriverErrs, caps \in ConnCapSets :
       LET out == wDriver_Open(drivers[n], rerr, Concrete(caps))
       IN /\ call' = Call("Driver.Open", "", drivers[n], <<>>, <<>>, <<>>, <<>>)
          /\ log' = out.log
          /\ ret' = Returned(out)
          /\ conn' = out.obj
          /\ UNCHANGED << held, registry >>

DriverOpenConnector ==
  /\ conn = None
  /\ held = None
  /\ \E n \in WrappedNames, rerr \in DriverErrs :
       /\ "DriverContext" \in drivers[n].roles
       /\ LET out == wDriver_OpenConnector(drivers[n], rerr, Connector(drivers[n].parent))
          IN /\ call' = Call("Driver.OpenConnector", "", drivers[n], <<>>, <<>>, <<>>, <<>>)
             /\ log' = out.log
             /\ ret' = Returned(out)
             /\ held' = out.obj
             /\ UNCHANGED << conn, registry >>

DriverConnect ==
  /\ conn = None
  /\ held.kind = "driver"
  /\ \E ctx \in CallerCtxs, rerr \in DriverErrs, caps \in ConnCapSets :
       LET out == wDriver_Connect(held, ctx, rerr, Concrete(caps))
       IN /\ call' = Call("Driver.Connect", "", held, ctx, <<>>, <<>>, <<>>)
          /\ log' = out.log
          /\ ret' = Returned(out)
          /\ conn' = out.obj
          /\ held' = IF out.err = NoErr THEN None ELSE held
          /\ UNCHANGED registry

NextDriver ==
  \/ DriverOpen
  \/ DriverOpenConnector
  \/ DriverConnect
  \/ /\ conn.kind = "conn"
     /\ Next

SpecDriver == InitDriver /\ [][NextDriver]_vars

(***************************************************************************)
(* Wrap, WrapConnector and WrapConn over concrete objects of every         *)
(* capability set, under options that do and do not make the wrapper       *)
(* operational, and Prepare and PrepareContext on the connection wrapped,  *)
(* over concrete statements of every capability set.  A behaviour is one   *)
(* wrap, then one prepare when the wrap made a decorated connection.       *)
(***************************************************************************)
WrapOptions ==
  { <<>>,
    << WithOperations(<< Ping, Exec >>) >>,
    << WithMiddleware(<<>>), WithOperations(<< Query >>) >>,
    << WithMiddleware(<< "obs" >>) >>,
    << WithInterceptor("rewrite") >>,
    << WithMiddleware(<< "obs", "bare" >>), WithInterceptor("rewrite"),
       WithOperations(<< Ping, Prepare >>) >> }

DriverCapSets == { {}, {"DriverContext"} }

\* the object is one of this package's, not a concrete one
Decorated(x) == "kind" \in DOMAIN x

WrapCall ==
  /\ call.m = ""
  /\ \E options \in WrapOptions, caps \in DriverCapSets :
       /\ call' = Call("Wrap", "", Concrete(caps), <<>>, <<>>, options, <<>>)
       /\ log' = <<>>
       /\ ret' = [err |-> NoErr, obj |-> Wrap(Concrete(caps), options)]
       /\ UNCHANGED << conn, held, registry >>

WrapConnectorCall ==
  /\ call.m = ""
  /\ \E options \in WrapOptions, caps \in DriverCapSets :
       /\ call' = Call("WrapConnector", "", Connector(Concrete(caps)), <<>>, <<>>,
                       options, <<>>)
       /\ log' = <<>>
       /\ ret' = [err |-> NoErr,
                  obj |-> WrapConnector(Connector(Concrete(caps)), options)]
       /\ UNCHANGED << conn, held, registry >>

WrapConnCall ==
  /\ call.m = ""
  /\ \E options \in WrapOptions, caps \in SUBSET ConnRoles :
       /\ call' = Call("WrapConn", "", Concrete(caps), <<>>, <<>>, options, <<>>)
       /\ log' = <<>>
       /\ ret' = [err |-> NoErr, obj |-> WrapConn(Concrete(caps), options)]
       /\ conn' = WrapConn(Concrete(caps), options)
       /\ held' = None
       /\ UNCHANGED registry

PrepareAny ==
  /\ call.m = "WrapConn"
  /\ Decorated(conn)
  /\ \E q \in Statements, rerr \in DriverErrs, caps \in SUBSET StmtRoles :
       LET out == wConn_Prepare(conn, q, rerr, Concrete(caps))
       IN /\ call' = Call("Conn.Prepare", Prepare, conn, <<>>, q, <<>>, <<>>)
          /\ log' = out.log
          /\ ret' = Returned(out)
          /\ held' = out.obj
          /\ UNCHANGED << conn, registry >>

PrepareContextAny ==
  /\ call.m = "WrapConn"
  /\ Decorated(conn)
  /\ \E ctx \in CallerCtxs, q \in Statements, rerr \in DriverErrs,
        caps \in SUBSET StmtRoles :
       LET out == wConn_PrepareContext(conn, ctx, q, rerr, Concrete(caps))
       IN /\ call' = Call("Conn.PrepareContext", Prepare, conn, ctx, q, <<>>, <<>>)
          /\ log' = out.log
          /\ ret' = Returned(out)
          /\ held' = out.obj
          /\ UNCHANGED << conn, registry >>

InitWrap ==
  /\ conn = None
  /\ held = None
  /\ call = Call("", "", None, <<>>, <<>>, <<>>, <<>>)
  /\ log = <<>>
  /\ ret = [err |-> NoErr, obj |-> None]
  /\ Quiet(Imported)

NextWrap ==
  \/ WrapCall
  \/ WrapConnectorCall
  \/ WrapConnCall
  \/ PrepareAny
  \/ PrepareContextAny

SpecWrap == InitWrap /\ [][NextWrap]_vars

(***************************************************************************)
(* NProcs calls of RegisterWithSource, run concurrently.  One action per   *)
(* step another goroutine can observe: sql.Open with db.Driver and         *)
(* db.Close, regMu.Lock, the for loop over sql.Drivers(), sql.Register,    *)
(* and the return with the deferred regMu.Unlock.                          *)
(***************************************************************************)
\* a failed return that still hands back the name it was looking at
returnErrNamed(pr, err) ==
  [pr EXCEPT !.pc = "returned", !.name = pr.driverName, !.err = err]

\* return "", err
returnErr(pr, err) ==
  [pr EXCEPT !.pc = "returned", !.name = <<>>, !.err = err]

\* return regName, nil
returnName(pr) ==
  [pr EXCEPT !.pc = "returned", !.name = pr.regName, !.err = NoErr]

\* db, err := sql.Open(driverName, source); dri := db.Driver(); db.Close()
RegOpen(p) ==
  /\ procs[p].pc = "idle"
  /\ \E driverName \in DriverNames, options \in RegOptions,
        openErr \in DriverErrs, closeErr \in DriverErrs :
       LET pr == [procs[p] EXCEPT !.driverName = driverName, !.options = options,
                                  !.opens = 1]
       IN procs' =
            [procs EXCEPT ![p] =
               IF driverName \notin DOMAIN drivers
               THEN returnErr(pr, ErrUnknownDriver)
               ELSE IF "DriverContext" \in drivers[driverName].caps
                       /\ openErr # NoErr
               THEN returnErr(pr, openErr)
               ELSE IF closeErr # NoErr
               THEN returnErr(pr, closeErr)
               ELSE [pr EXCEPT !.pc = "opened", !.dri = drivers[driverName]]]
  /\ UNCHANGED << session, drivers, regMu >>

\* RegisterWithSource without regMu
RegLockAbsent(p) ==
  /\ procs[p].pc = "opened"
  /\ procs' = [procs EXCEPT ![p].pc = "locked"]
  /\ UNCHANGED << session, drivers, regMu >>

\* regMu.Lock()
RegLock(p) ==
  /\ procs[p].pc = "opened"
  /\ regMu = Unlocked
  /\ regMu' = p
  /\ procs' = [procs EXCEPT ![p].pc = "locked"]
  /\ UNCHANGED << session, drivers >>

\* the for loop up to the first name that is not found, or to its end
RegSearch(p) ==
  /\ procs[p].pc = "locked"
  /\ LET pr == procs[p]
         i == scan(pr.driverName, DOMAIN drivers, 0)
     IN IF i < MaxSlots
        THEN /\ procs' = [procs EXCEPT ![p] =
                            [pr EXCEPT !.pc = "found",
                                       !.regName = regName(pr.driverName, i)]]
             /\ UNCHANGED regMu
        ELSE /\ procs' = [procs EXCEPT ![p] = returnErr(pr, ErrSlots)]
             /\ regMu' = IF regMu = p THEN Unlocked ELSE regMu
  /\ UNCHANGED << session, drivers >>

\* sql.Register(regName, Wrap(dri, options...)), which panics when the name
\* is registered already
RegRegister(p) ==
  /\ procs[p].pc = "found"
  /\ LET pr == procs[p]
     IN IF pr.regName \in DOMAIN drivers
        THEN /\ procs' = [procs EXCEPT ![p] =
                            [pr EXCEPT !.pc = "returned", !.name = <<>>,
                                       !.err = Panic, !.before = DOMAIN drivers]]
             /\ regMu' = IF regMu = p THEN Unlocked ELSE regMu
             /\ UNCHANGED drivers
        ELSE /\ drivers' = Register(drivers, pr.regName, Wrap(pr.dri, pr.options))
             /\ procs' = [procs EXCEPT ![p] =
                            [pr EXCEPT !.pc = "registered",
                                       !.before = DOMAIN drivers,
                                       !.added = pr.added \cup {pr.regName}]]
             /\ UNCHANGED regMu
  /\ UNCHANGED session

\* return regName, nil, and the deferred regMu.Unlock()
RegReturn(p) ==
  /\ procs[p].pc = "registered"
  /\ procs' = [procs EXCEPT ![p] = returnName(procs[p])]
  /\ regMu' = IF regMu = p THEN Unlocked ELSE regMu
  /\ UNCHANGED << session, drivers >>

InitReg ==
  /\ conn = None
  /\ held = None
  /\ call = Call("", "", None, <<>>, <<>>, <<>>, <<>>)
  /\ log = <<>>
  /\ ret = [err |-> NoErr, obj |-> None]
  /\ \E r \in Registries : Quiet(r)

NextReg ==
  \E p \in Procs :
    \/ RegOpen(p)
    \/ RegLock(p)
    \/ RegSearch(p)
    \/ RegRegister(p)
    \/ RegReturn(p)

SpecReg == InitReg /\ [][NextReg]_vars

(***************************************************************************)
(* Reading the trace of the last call.                                     *)
(***************************************************************************)
Called == call.m # ""

\* the configuration the receiver of the call carries
Mws == call.recv.options.Middlewares
Interceptor == call.recv.options.Intercept
Enabled == call.op \in call.recv.options.operations

OfKind(k) == SelectSeq(log, LAMBDA e : e.k = k)
At(k) == { j \in 1..Len(log) : log[j].k = k }
Positions(s) == [j \in 1..Len(s) |-> s[j].i]
Ascending(n) == [j \in 1..n |-> j]
Descending(n) == [j \in 1..n |-> n - j + 1]

\* the position of every before-hook invoked, in the order invoked
Befores == Positions(OfKind("before"))
\* the position of every finalizer invoked, in the order invoked
Afters == Positions(OfKind("after"))

\* the optional role of the concrete connection behind an exec or query method
RoleBehind(m) ==
  CASE m = "Conn.Exec" -> "Execer"
    [] m = "Conn.ExecContext" -> "ExecerContext"
    [] m = "Conn.Query" -> "Queryer"
    [] m = "Conn.QueryContext" -> "QueryerContext"
    [] OTHER -> "Conn"

\* the call is an exec or query on a connection whose concrete connection
\* lacks the role behind the method
Refused ==
  /\ call.m \in {"Conn.Exec", "Conn.ExecContext", "Conn.Query", "Conn.QueryContext"}
  /\ RoleBehind(call.m) \notin call.recv.parent.caps

FinalizerCount(i) == Cardinality({ j \in At("after") : log[j].i = i })

C2_Original ==
  Called /\ Enabled => \A i \in 1..Len(Mws) : FinalizerCount(i) = 1

(***************************************************************************)
(* C2, amended: in every call of an enabled operation the finalizer of     *)
(* each configured middleware is invoked exactly once, whether the         *)
(* concrete call succeeds or fails or the method returns early after the   *)
(* middleware stage, except that an exec or query call on a connection     *)
(* whose concrete connection lacks the role behind the method returns      *)
(* ErrSkip before the middleware stage and invokes no finalizer.           *)
(***************************************************************************)
C2_ExactlyOnce ==
  Called /\ Enabled =>
    IF Refused
    THEN /\ At("after") = {}
         /\ ret.err = ErrSkip
    ELSE /\ \A i \in 1..Len(Mws) : FinalizerCount(i) = 1
         /\ Len(Afters) = Len(Mws)

\* the concrete call failed and every finalizer still ran once
C2_Witness ==
  /\ Called /\ Enabled /\ ~Refused
  /\ Len(Mws) >= 2
  /\ ret.err = ErrFailed
  /\ \A i \in 1..Len(Mws) : FinalizerCount(i) = 1

(***************************************************************************)
(* C3: in every call of an enabled operation all finalizers receive the    *)
(* same completion value, the error (or nil) the decorated method returns  *)
(* to its caller.                                                          *)
(***************************************************************************)
C3_CompletionValue ==
  Called /\ Enabled => \A a \in At("after") : log[a].err = ret.err

(***************************************************************************)
(* C4: whenever the concrete object returns a non-nil error, the decorated *)
(* method returns that error and no decorated object.                      *)
(***************************************************************************)
C4_ErrorsUnchanged ==
  Called =>
    \A r \in At("real") :
      log[r].err # NoErr => ret.err = log[r].err /\ ret.obj = None

\* the concrete call failed under an interceptor and two middlewares
C4_Witness ==
  /\ Called
  /\ Interceptor # NilFn
  /\ Len(Mws) >= 2
  /\ \E r \in At("real") : log[r].err = ErrFailed
  /\ ret.err = ErrFailed
  /\ ret.obj = None

(***************************************************************************)
(* C5: the interceptor is invoked at most once in a call and before the    *)
(* first before-hook, whatever the number of middlewares; when none is     *)
(* configured it is never invoked, and the statement and the parameters    *)
(* reach the middlewares and the concrete call as the caller gave them     *)
(* (for a statement method, the statement the statement object stores).    *)
(***************************************************************************)
\* the statement of the call: the caller's, or the one stored in the receiver
GivenStatement ==
  IF call.recv.kind = "stmt" THEN call.recv.query ELSE call.stmt

\* the parameters of the call as named values
GivenNamed ==
  IF call.vals # <<>> THEN namedValues(call.vals) ELSE call.args

\* the concrete methods that take a statement / positional values
TakesStatement(m) ==
  m \in { "Execer.Exec", "ExecerContext.ExecContext", "Queryer.Query",
          "QueryerContext.QueryContext", "Conn.Prepare",
          "ConnPrepareContext.PrepareContext" }
TakesValues(m) ==
  m \in { "Execer.Exec", "Queryer.Query", "Stmt.Exec", "Stmt.Query" }
TakesNamed(m) ==
  m \in { "ExecerContext.ExecContext", "QueryerContext.QueryContext",
          "StmtExecContext.ExecContext", "StmtQueryContext.QueryContext" }

C5_InterceptOnceFirst ==
  Called =>
    /\ Cardinality(At("intercept")) <= 1
    /\ \A i \in At("intercept"), b \in At("before") : i < b
    /\ Interceptor = NilFn =>
         /\ At("intercept") = {}
         /\ \A b \in At("before") :
              log[b].stmt = GivenStatement /\ log[b].args = GivenNamed
         /\ \A r \in At("real") :
              /\ TakesStatement(log[r].op) => log[r].stmt = call.stmt
              /\ TakesValues(log[r].op) => log[r].vals = call.vals
              /\ TakesNamed(log[r].op) => log[r].args = call.args

\* one interceptor invocation ahead of two before-hooks
C5_Witness ==
  /\ Called /\ Enabled
  /\ Interceptor # NilFn
  /\ Len(Mws) >= 2
  /\ At("intercept") = {1}
  /\ Befores = Ascending(Len(Mws))
  /\ call.args # <<>>

(***************************************************************************)
(* C6, as stated: in a call of exec, query, prepare, stmt_exec or          *)
(* stmt_query, legacy or context-aware, the statement and the parameters   *)
(* the interceptor returns are exactly the statement and the parameters    *)
(* every middleware receives and the concrete call is invoked with.        *)
(***************************************************************************)
\* what the interceptor returned in the call, from what it was handed
Rewritten ==
  LET e == log[CHOOSE j \in At("intercept") : TRUE]
  IN Intercept(Interceptor, e.ctx, e.op, e.stmt, e.args)

Legacy ==
  call.m \in { "Conn.Exec", "Conn.Query", "Conn.Prepare", "Stmt.Exec", "Stmt.Query" }

C7_Original ==
  Called /\ ~Enabled =>
    /\ At("before") = {}
    /\ At("after") = {}
    /\ Interceptor # NilFn => Cardinality(At("intercept")) = 1

(***************************************************************************)
(* C7, amended: a call of an operation left out of the enabled set invokes *)
(* no before-hook and no finalizer; a configured interceptor is invoked    *)
(* exactly once in it when the operation is exec, query, prepare,          *)
(* stmt_exec or stmt_query and the call is not an exec or query refused    *)
(* with ErrSkip for want of the role, and is not invoked at all otherwise. *)
(***************************************************************************)
Intercepted == { Exec, Query, Prepare, StmtExec, StmtQuery }

C7_DisabledSkipsHooksOnly ==
  Called /\ ~Enabled =>
    /\ At("before") = {}
    /\ At("after") = {}
    /\ Interceptor # NilFn =>
         Cardinality(At("intercept")) =
           IF call.op \in Intercepted /\ ~Refused THEN 1 ELSE 0

\* a disabled statement query under two middlewares and an interceptor
C7_Witness ==
  /\ Called /\ ~Enabled
  /\ call.op = StmtQuery
  /\ Len(Mws) >= 2
  /\ Interceptor # NilFn
  /\ At("intercept") = {1}
  /\ At("real") = {2}
  /\ At("before") = {}

(***************************************************************************)
(* C8: two wrappers that differ only in the enabled operations, with       *)
(* middlewares that return their context unchanged, make the same          *)
(* interceptor invocations and the same concrete calls, with the same      *)
(* statement and parameters, over the same sequence of calls.  Checked     *)
(* call by call: the call just made is made again on a receiver that       *)
(* differs only in the enabled operations, against the same answers of     *)
(* the concrete driver; the interceptor invocations and the concrete calls *)
(* are the same, and the objects returned differ only in the enabled       *)
(* operations, so that the next call starts from such a pair again.        *)
(***************************************************************************)
\* the decorated method m on receiver recv with the arguments of call c,
\* the concrete driver answering rerr and robj
Dispatch(c, recv, rerr, robj) ==
  CASE c.m = "Conn.Ping" -> wConn_Ping(recv, c.ctx, rerr)
    [] c.m = "Conn.Exec" -> wConn_Exec(recv, c.stmt, c.vals, rerr, robj)
    [] c.m = "Conn.ExecContext" -> wConn_ExecContext(recv, c.ctx, c.stmt, c.args, rerr, robj)
    [] c.m = "Conn.Query" -> wConn_Query(recv, c.stmt, c.vals, rerr, robj)
    [] c.m = "Conn.QueryContext" -> wConn_QueryContext(recv, c.ctx, c.stmt, c.args, rerr, robj)
    [] c.m = "Conn.Prepare" -> wConn_Prepare(recv, c.stmt, rerr, robj)
    [] c.m = "Conn.PrepareContext" -> wConn_PrepareContext(recv, c.ctx, c.stmt, rerr, robj)
    [] c.m = "Conn.Begin" -> wConn_Begin(recv, rerr, robj)
    [] c.m = "Conn.BeginTx" -> wConn_BeginTx(recv, c.ctx, rerr, robj)
    [] c.m = "Result.LastInsertId" -> wResult_LastInsertId(recv, rerr)
    [] c.m = "Result.RowsAffected" -> wResult_RowsAffected(recv, rerr)
    [] c.m = "Stmt.Exec" -> wStmt_Exec(recv, c.vals, rerr, robj)
    [] c.m = "Stmt.Query" -> wStmt_Query(recv, c.vals, rerr, robj)
    [] c.m = "Stmt.ExecContext" -> wStmt_ExecContext(recv, c.ctx, c.args, rerr, robj)
    [] c.m = "Stmt.QueryContext" -> wStmt_QueryContext(recv, c.ctx, c.args, rerr, robj)
    [] c.m = "Stmt.Close" -> wStmt_Close(recv, rerr)
    [] c.m = "Rows.Next" -> wRows_Next(recv, rerr)
    [] c.m = "Rows.Close" -> wRows_Close(recv, rerr)
    [] c.m = "Tx.Commit" -> wTx_Commit(recv, rerr)
    [] OTHER -> wTx_Rollback(recv, rerr)

\* the same object with another set of enabled operations
WithEnabled(obj, ops) == [obj EXCEPT !.options.operations = ops]

\* the interceptor invocations and the concrete calls of a trace, in order
Rewriting(l) == SelectSeq(l, LAMBDA e : e.k \in {"intercept", "real"})

\* other sets of enabled operations
OtherOperations ==
  { {}, Operation, defaultOperations, Operation \ defaultOperations }

ContextKept == \A i \in 1..Len(Mws) : Mws[i] \in {"obs", "bare"}

\* the answers of the concrete driver
DriverAnswers == DriverErrs \cup FastPathErrs \cup NextErrs
DriverObjects == { Concrete(caps) : caps \in StmtCapSets }

C8_FilterLeavesRewriting ==
  Called /\ call.op \in Intercepted /\ ContextKept =>
    \E rerr \in DriverAnswers, robj \in DriverObjects :
      /\ Dispatch(call, call.recv, rerr, robj) =
           [log |-> log, err |-> ret.err, obj |-> ret.obj]
      /\ \A ops \in OtherOperations :
           LET other == Dispatch(call, WithEnabled(call.recv, ops), rerr, robj)
           IN /\ Rewriting(other.log) = Rewriting(log)
              /\ other.err = ret.err
              /\ WithEnabled(other.obj, {}) = WithEnabled(ret.obj, {})

\* a statement exec on a wrapper that leaves stmt_exec out: the interceptor
\* and the concrete call make up the whole trace, while the same call on a
\* wrapper with every operation enabled runs the middleware stage as well
C8_Witness ==
  /\ Called /\ ~Enabled /\ ContextKept
  /\ call.op = StmtExec
  /\ Len(Mws) >= 1
  /\ Interceptor = "rewrite"
  /\ Len(Rewriting(log)) = 2
  /\ Len(log) = 2
  /\ ret.obj.kind = "result"

(***************************************************************************)
(* C9, as stated: when no operations are selected, the enabled set is      *)
(* every operation except ping; the middleware hooks fire in a call of any *)
(* operation but ping, rows_next included, and do not fire in a ping.      *)
(***************************************************************************)
Selected == call.recv.options.Operations

\* middlewares are configured and the call is not one refused with ErrSkip
\* ahead of the point where the method consults the enabled set
Consulted == Len(Mws) >= 1 /\ ~Refused

C9_Original ==
  Called /\ Selected = <<>> =>
    /\ call.recv.options.operations = Operation \ {Ping}
    /\ Consulted => (At("before") # {} <=> call.op # Ping)

(***************************************************************************)
(* C9, amended: when no operations are selected, the enabled set is every  *)
(* operation except ping and rows_next; the middleware hooks fire in a     *)
(* call of exec, query, prepare, begin, commit, rollback, last_insert_id,  *)
(* rows_affected, stmt_exec, stmt_query, stmt_close and rows_close, and do *)
(* not fire in a ping or a rows_next, nor in an exec or query refused with *)
(* ErrSkip for want of the role in the concrete connection.                *)
(***************************************************************************)
C9_DefaultOperations ==
  Called /\ Selected = <<>> =>
    /\ call.recv.options.operations = Operation \ {Ping, RowsNext}
    /\ Refused => At("before") = {} /\ At("after") = {}
    /\ Consulted =>
         /\ At("before") # {} <=> call.op \notin {Ping, RowsNext}
         /\ At("after") # {} <=> call.op \notin {Ping, RowsNext}

\* a rows_next under the default set: the concrete call alone
C9_Witness ==
  /\ Called /\ Selected = <<>>
  /\ Len(Mws) >= 2
  /\ call.op = RowsNext
  /\ At("real") = {1}
  /\ Len(log) = 1

(***************************************************************************)
(* C10, as stated: when operations are selected, the enabled set is        *)
(* exactly the set of the selected operations, for every non-empty subset  *)
(* of the 14 operations; the middleware hooks fire in a call of an         *)
(* operation if and only if that operation was selected, ping included.    *)
(***************************************************************************)
\* the operations of S, listed in the order of the constants
Listing(S) == SelectSeq(AllOperations, LAMBDA op : op \in S)

\* the enabled set of the wrapper's configuration when it selects S, in two
\* WithOperations the second of which names one operation over again
Resolved(S) ==
  prepareOptions(<< WithMiddleware(conn.options.Middlewares),
                    WithInterceptor(conn.options.Intercept),
                    WithOperations(Listing(S)),
                    WithOperations(<< Listing(S)[1] >>) >>).o.operations

C10_Original ==
  /\ ~Called => \A S \in (SUBSET Operation) \ {{}} : Resolved(S) = S
  /\ Called /\ Selected # <<>> =>
       /\ call.recv.options.operations = SeqRange(Selected)
       /\ Len(Mws) >= 1 =>
            /\ At("before") # {} <=> call.op \in SeqRange(Selected)
            /\ At("after") # {} <=> call.op \in SeqRange(Selected)

(***************************************************************************)
(* C10, amended: when operations are selected, the enabled set is exactly  *)
(* the set of the selected operations, for every non-empty subset of the   *)
(* 14 operations, however often and in however many WithOperations an      *)
(* operation is named; the middleware hooks fire in a call of an operation *)
(* if and only if that operation was selected, ping included, except that  *)
(* an exec or query refused with ErrSkip for want of the role in the       *)
(* concrete connection fires none even when selected.                      *)
(***************************************************************************)
C10_SelectedOnly ==
  /\ ~Called => \A S \in (SUBSET Operation) \ {{}} : Resolved(S) = S
  /\ Called /\ Selected # <<>> =>
       /\ call.recv.options.operations = SeqRange(Selected)
       /\ Refused => At("before") = {} /\ At("after") = {}
       /\ Consulted =>
            /\ At("before") # {} <=> call.op \in SeqRange(Selected)
            /\ At("after") # {} <=> call.op \in SeqRange(Selected)

\* a ping on a wrapper that selects ping and leaves another operation out
C10_Witness ==
  /\ Called /\ Selected # <<>>
  /\ call.op = Ping
  /\ Ping \in SeqRange(Selected)
  /\ SeqRange(Selected) # Operation
  /\ Len(Mws) >= 2
  /\ Befores = Ascending(Len(Mws))
  /\ At("real") # {}

(***************************************************************************)
(* C11: with no middleware and no interceptor among the options, whatever  *)
(* operations they select, Wrap, WrapConnector and WrapConn return the     *)
(* very object they were given: nothing of this package stands between the *)
(* caller and the concrete object, whose roles and behaviour are therefore *)
(* the original's.                                                         *)
(***************************************************************************)
Wrapping == call.m \in { "Wrap", "WrapConnector", "WrapConn" }

\* the options configure neither a middleware nor an interceptor
Inert(options) ==
  LET o == ApplyOptions(options, ZeroOptions)
  IN Len(o.Middlewares) = 0 /\ o.Intercept = NilFn

C11_InertOptionsReturnGiven ==
  Wrapping /\ Inert(call.args) =>
    /\ ret.obj = call.recv
    /\ ~Decorated(ret.obj)
    /\ ret.obj.caps = call.recv.caps

\* WrapConn under options that only select operations, over a connection
\* with optional roles
C11_Witness ==
  /\ call.m = "WrapConn"
  /\ Inert(call.args)
  /\ ApplyOptions(call.args, ZeroOptions).Operations # <<>>
  /\ call.recv.caps = {"Pinger", "SessionResetter"}
  /\ ret.obj = call.recv

(***************************************************************************)
(* C12, as stated: the decorated connection made from a concrete           *)
(* connection with the optional roles S advertises exactly S, for every    *)
(* subset S of the nine optional roles.                                    *)
(***************************************************************************)
WrappedConn == call.m = "WrapConn" /\ Decorated(ret.obj)

C12_Original ==
  WrappedConn => ret.obj.roles \ {"Conn"} = call.recv.caps

(***************************************************************************)
(* C12, amended: whatever S is, the decorated connection advertises ping,  *)
(* legacy and context exec, legacy and context query, context prepare and  *)
(* context begin; it advertises session reset if and only if S has it, and *)
(* named-value check if and only if S has it or S lacks session reset.     *)
(* The session-reset role, and the named-value check when S has it, are    *)
(* answered by the concrete connection itself.                             *)
(***************************************************************************)
C12_ConnRoles ==
  WrappedConn =>
    LET S == call.recv.caps
    IN /\ connInterface \subseteq ret.obj.roles
       /\ ret.obj.roles \subseteq connInterface \cup {"NamedValueChecker", "SessionResetter"}
       /\ "SessionResetter" \in ret.obj.roles <=> "SessionResetter" \in S
       /\ "NamedValueChecker" \in ret.obj.roles <=>
            ("NamedValueChecker" \in S \/ "SessionResetter" \notin S)
       /\ ret.obj.forwards = S \cap {"NamedValueChecker", "SessionResetter"}

\* a connection with session reset alone: the decorated one adds seven
\* roles and has no named-value check
C12_Witness ==
  /\ WrappedConn
  /\ call.recv.caps = {"SessionResetter"}
  /\ ret.obj.roles = connInterface \cup {"SessionResetter"}

(***************************************************************************)
(* C13: for each of the 16 sets of optional roles of a concrete statement  *)
(* (context exec, context query, column converter, named-value checker)    *)
(* the decorated statement advertises a role if and only if the concrete   *)
(* statement has it, and the column converter and the named-value checker  *)
(* are answered by the concrete statement itself.                          *)
(***************************************************************************)
Prepared ==
  /\ call.m \in { "Conn.Prepare", "Conn.PrepareContext" }
  /\ ret.err = NoErr

C13_StmtRoles ==
  Prepared =>
    /\ ret.obj.kind = "stmt"
    /\ \A role \in StmtRoles : role \in ret.obj.roles <=> role \in ret.obj.parent.caps
    /\ ret.obj.roles \subseteq {"Stmt"} \cup StmtRoles
    /\ "Stmt" \in ret.obj.roles
    /\ ret.obj.forwards = ret.obj.parent.caps \cap {"ColumnConverter", "NamedValueChecker"}

\* a statement with context query and the column converter, and neither of
\* the other two
C13_Witness ==
  /\ Prepared
  /\ ret.obj.parent.caps = {"StmtQueryContext", "ColumnConverter"}
  /\ ret.obj.roles = {"Stmt", "StmtQueryContext", "ColumnConverter"}
  /\ ret.obj.forwards = {"ColumnConverter"}

(***************************************************************************)
(* C14: a registration for base name D that succeeds returns D-wrap-i for  *)
(* the smallest i in 0..99 whose name was not registered when it           *)
(* registered; successive registrations for one base therefore return      *)
(* distinct names, and a name registered already is neither returned again *)
(* nor registered a second time.                                           *)
(***************************************************************************)
Done(p) == procs[p].pc = "returned"
Succeeded(p) == Done(p) /\ procs[p].err = NoErr

\* the indexes whose name for driverName is not among names
FreeIndexes(driverName, names) ==
  { i \in 0..(MaxSlots - 1) : regName(driverName, i) \notin names }

Least(S) == CHOOSE i \in S : \A j \in S : i <= j

C14_FirstFreeName ==
  \A p \in Procs :
    Succeeded(p) =>
      LET pr == procs[p]
          free == FreeIndexes(pr.driverName, pr.before)
      IN /\ free # {}
         /\ pr.name = regName(pr.driverName, Least(free))
         /\ pr.name \notin pr.before
         /\ pr.name \in DOMAIN drivers
         /\ pr.added = {pr.name}
         /\ \A q \in Procs \ {p} : Succeeded(q) => procs[q].name # pr.name

\* two registrations for pg around a slot taken beforehand: pg-wrap-0, then
\* pg-wrap-2
C14_Witness ==
  \E p, q \in Procs :
    /\ Succeeded(p) /\ Succeeded(q)
    /\ procs[p].name = regName(<< "pg" >>, 0)
    /\ procs[q].name = regName(<< "pg" >>, 2)
    /\ regName(<< "pg" >>, 0) \in procs[q].before

(***************************************************************************)
(* C15: under every interleaving of concurrent registrations, for one base *)
(* name or several, no two calls obtain the same name and no call          *)
(* registers a name that is registered already: at most one call at a time *)
(* is between regMu.Lock and its return, where it searches and registers.  *)
(***************************************************************************)
InSection(p) == procs[p].pc \in { "locked", "found", "registered" }
Obtained(p) == procs[p].pc \in { "found", "registered" } \/ Succeeded(p)

C15_OneCriticalSection ==
  /\ \A p, q \in Procs : InSection(p) /\ InSection(q) => p = q
  /\ \A p \in Procs : InSection(p) => regMu = p
  /\ \A p \in Procs : procs[p].err # Panic
  /\ \A p \in Procs : procs[p].pc = "found" => procs[p].regName \notin DOMAIN drivers
  /\ \A p, q \in Procs :
       Obtained(p) /\ Obtained(q) /\ procs[p].regName = procs[q].regName => p = q

\* one call has found its name and holds regMu, another for the same base
\* waits for it, a third has returned
C15_Witness ==
  \E p, q, r \in Procs :
    /\ procs[p].pc = "found"
    /\ procs[q].pc = "opened"
    /\ procs[q].driverName = procs[p].driverName
    /\ Succeeded(r)
    /\ procs[r].driverName = procs[p].driverName
    /\ regMu = p

(***************************************************************************)
(* C16: a registration that fails, because the open of the named driver    *)
(* failed or because the 100 names D-wrap-0 .. D-wrap-99 are all           *)
(* registered, returns an error and the empty name, has registered         *)
(* nothing, and has opened the driver once only.                           *)
(***************************************************************************)
C16_FailureIsTerminal ==
  \A p \in Procs :
    Done(p) /\ procs[p].err # NoErr =>
      /\ procs[p].name = <<>>
      /\ procs[p].added = {}
      /\ procs[p].opens = 1
      /\ procs[p].err \in { ErrUnknownDriver, ErrFailed, ErrSlots }
      /\ procs[p].err = ErrSlots =>
           FreeIndexes(procs[p].driverName, DOMAIN drivers) = {}

\* one call failed for want of a slot, another for want of the driver
C16_Witness ==
  \E p, q \in Procs :
    /\ Done(p) /\ procs[p].err = ErrSlots
    /\ Done(q) /\ procs[q].err = ErrUnknownDriver
    /\ procs[p].name = <<>>
    /\ FreeIndexes(procs[p].driverName, DOMAIN drivers) = {}

(***************************************************************************)
(* C17, as stated: when the concrete connection lacks the role behind a    *)
(* context-aware connection method (context exec, query, prepare, begin),  *)
(* the decorated method calls the legacy method of the concrete connection *)
(* instead, and the interceptor, where the operation has one, and the      *)
(* middlewares run around that call.                                       *)
(***************************************************************************)
ContextRole(m) ==
  CASE m = "Conn.ExecContext" -> "ExecerContext"
    [] m = "Conn.QueryContext" -> "QueryerContext"
    [] m = "Conn.PrepareContext" -> "ConnPrepareContext"
    [] OTHER -> "ConnBeginTx"

LegacyOf(m) ==
  CASE m = "Conn.ExecContext" -> "Execer.Exec"
    [] m = "Conn.QueryContext" -> "Queryer.Query"
    [] m = "Conn.PrepareContext" -> "Conn.Prepare"
    [] OTHER -> "Conn.Begin"

\* a context-aware connection method over a connection without its role
LacksContextRole ==
  /\ call.m \in { "Conn.ExecContext", "Conn.QueryContext", "Conn.PrepareContext",
                  "Conn.BeginTx" }
  /\ ContextRole(call.m) \notin call.recv.parent.caps

\* the middlewares ran around whatever the method did
HooksAround ==
  Enabled => Befores = Ascending(Len(Mws)) /\ Afters = Descending(Len(Mws))

Unimplemented(m) ==
  CASE m = "Conn.Ping" -> ErrNoPing
    [] m = "Stmt.ExecContext" -> ErrNoExecContext
    [] OTHER -> ErrNoQueryContext

LacksCapability ==
  \/ call.m = "Conn.Ping" /\ "Pinger" \notin call.recv.parent.caps
  \/ call.m = "Stmt.ExecContext" /\ "StmtExecContext" \notin call.recv.parent.caps
  \/ call.m = "Stmt.QueryContext" /\ "StmtQueryContext" \notin call.recv.parent.caps

C18_DescriptiveError ==
  Called /\ LacksCapability =>
    /\ ret.err = Unimplemented(call.m)
    /\ ret.err \notin { NoErr, Panic }
    /\ ret.obj = None
    /\ At("real") = {}
    /\ Enabled =>
         /\ Afters = Descending(Len(Mws))
         /\ \A a \in At("after") : log[a].err = Unimplemented(call.m)

\* ExecContext on a statement whose parent lacks it: both finalizers were
\* handed the error
C18_Witness ==
  /\ Called /\ LacksCapability /\ Enabled
  /\ call.m = "Stmt.ExecContext"
  /\ Len(Mws) >= 2
  /\ Afters = Descending(Len(Mws))
  /\ ret.err = ErrNoExecContext

(***************************************************************************)
(* C19: when the concrete connection returns ErrSkip from an exec or a     *)
(* query, the decorated method returns ErrSkip itself and no object, and   *)
(* every finalizer of an enabled operation is handed ErrSkip.              *)
(***************************************************************************)
Skipped == \E r \in At("real") : log[r].err = ErrSkip

C19_SkipPropagates ==
  Called /\ Skipped =>
    /\ call.op \in { Exec, Query }
    /\ ret.err = ErrSkip
    /\ ret.obj = None
    /\ Enabled =>
         /\ Afters = Descending(Len(Mws))
         /\ \A a \in At("after") : log[a].err = ErrSkip

\* a legacy exec the concrete connection skipped, under two middlewares
C19_Witness ==
  /\ Called /\ Skipped /\ Enabled
  /\ call.m = "Conn.Exec"
  /\ Len(Mws) >= 2
  /\ Afters = Descending(Len(Mws))
  /\ ret.err = ErrSkip

(***************************************************************************)
(* C20: in a context-aware call the contexts handed to the interceptor, to *)
(* the middlewares and to the concrete call all derive from the context    *)
(* the caller passed to that call; none is a context stored by an earlier  *)
(* operation.                                                              *)
(***************************************************************************)
\* context b was derived from context a: it carries a and what was added
DerivedFrom(a, b) == Len(a) <= Len(b) /\ SubSeq(b, 1, Len(a)) = a

ContextAware ==
  call.m \in { "Conn.Ping", "Conn.ExecContext", "Conn.QueryContext",
               "Conn.PrepareContext", "Conn.BeginTx", "Stmt.ExecContext",
               "Stmt.QueryContext" }

C20_CallerContext ==
  Called /\ ContextAware =>
    \A e \in 1..Len(log) :
      \/ log[e].k = "after"
      \/ log[e].k = "real" /\ log[e].ctx = <<>>
      \/ DerivedFrom(call.ctx, log[e].ctx)

(***************************************************************************)
(* C21, as stated: the same collection of options (whole-options           *)
(* replacement, middleware append, interceptor set, operation selection)   *)
(* applied in any order yields the same configuration, the order of the    *)
(* middlewares apart: the same interceptor, the same enabled operations    *)
(* and the same middlewares.                                               *)
(***************************************************************************)
\* the orders the options of a list can be given in
Orders(n) == { f \in [1..n -> 1..n] : \A i, j \in 1..n : f[i] = f[j] => i = j }
Reordered(options, f) == [i \in 1..Len(options) |-> options[f[i]]]

Count(s, x) == Cardinality({ i \in 1..Len(s) : s[i] = x })
SameMiddlewares(a, b) == \A x \in MiddlewareKinds : Count(a, x) = Count(b, x)

\* two prepared configurations that differ at most in the order of their lists
SameConfiguration(a, b) ==
  /\ a.ok = b.ok
  /\ a.o.Intercept = b.o.Intercept
  /\ a.o.operations = b.o.operations
  /\ SeqRange(a.o.Operations) = SeqRange(b.o.Operations)
  /\ SameMiddlewares(a.o.Middlewares, b.o.Middlewares)

Configuring == call.m = "WrapConn"

OrderIndependent ==
  \A f \in Orders(Len(call.args)) :
    SameConfiguration(prepareOptions(call.args),
                      prepareOptions(Reordered(call.args, f)))

C21_Original == Configuring => OrderIndependent

(***************************************************************************)
(* C21, amended: middleware-append options, operation-selection options    *)
(* and interceptor options that all set the same interceptor, applied in   *)
(* any order, yield the same interceptor, the same enabled operations and  *)
(* the same middlewares, the middleware list in the order appended.  A     *)
(* whole-options replacement discards what the options before it set, and  *)
(* of interceptor options that differ the last one wins, so for those the  *)
(* order matters.                                                          *)
(***************************************************************************)
OfType(options, t) == { i \in 1..Len(options) : options[i].t = t }

Commuting(options) ==
  /\ OfType(options, "WithOptions") = {}
  /\ Cardinality({ options[i].o.Intercept :
                     i \in OfType(options, "WithInterceptor") }) <= 1

C21_CommutingOptions ==
  Configuring /\ Commuting(call.args) => OrderIndependent

\* three options of three kinds, giving an operational configuration
C21_Witness ==
  /\ Configuring /\ Commuting(call.args)
  /\ Len(call.args) = 3
  /\ OfType(call.args, "WithMiddleware") # {}
  /\ OfType(call.args, "WithInterceptor") # {}
  /\ OfType(call.args, "WithOperations") # {}
  /\ call.args[1].t # "WithMiddleware"
  /\ Decorated(conn)
  /\ conn.options.operations = { Exec, Query }

(***************************************************************************)
(* C22: among middleware, interceptor and operation options, the           *)
(* middlewares of the middleware options accumulate into one list in the   *)
(* order appended, none lost, and the interceptor of the configuration,    *)
(* the one a decorated method invokes, is the one the last interceptor     *)
(* option set.                                                             *)
(***************************************************************************)
\* the middlewares of the middleware options, in the order of the options
RECURSIVE Appended(_)
Appended(options) ==
  IF options = <<>> THEN <<>>
  ELSE (IF Head(options).t = "WithMiddleware" THEN Head(options).o.Middlewares
        ELSE <<>>) \o Appended(Tail(options))

\* the interceptor of the last interceptor option, nil when there is none
LastInterceptor(options) ==
  LET at == OfType(options, "WithInterceptor")
  IN IF at = {} THEN NilFn
     ELSE options[CHOOSE i \in at : \A j \in at : j <= i].o.Intercept

\* what a context exec on the connection hands its concrete connection
Handed(c) ==
  LET out == wConn_ExecContext(c, Background, << "q" >>,
                               << NamedValue("", 1, "v") >>, NoErr, Concrete({}))
  IN { [stmt |-> out.log[e].stmt, args |-> out.log[e].args] :
         e \in { e \in 1..Len(out.log) : out.log[e].k = "real" } }

C22_AccumulateAndReplace ==
  Configuring /\ OfType(call.args, "WithOptions") = {} =>
    LET po == prepareOptions(call.args)
        i == Intercept(LastInterceptor(call.args), Background, Exec, << "q" >>,
                       << NamedValue("", 1, "v") >>)
    IN /\ po.o.Middlewares = Appended(call.args)
       /\ po.o.Intercept = LastInterceptor(call.args)
       /\ po.ok =>
            /\ conn.options.Middlewares = Appended(call.args)
            /\ LastInterceptor(call.args) # NilFn =>
                 Handed(conn) = { [stmt |-> i.statement, args |-> i.args] }

\* two middleware options and two different interceptor options
C22_Witness ==
  /\ Configuring
  /\ Len(call.args) = 3
  /\ call.args[1] = WithInterceptor("name")
  /\ call.args[2] = WithMiddleware(<< "span", "bare" >>)
  /\ call.args[3] = WithInterceptor("rewrite")
  /\ conn.options.Intercept = "rewrite"
  /\ conn.options.Middlewares = << "span", "bare" >>

(***************************************************************************)
(* C23: a middleware that returns no finalizer is given a no-op one: in a  *)
(* call that ran such a middleware every finalizer, the no-op included, is *)
(* invoked once in reverse order, and the call does and returns what the   *)
(* same call does and returns when that middleware supplies a finalizer.   *)
(***************************************************************************)
\* a middleware that returned no finalizer ran in the call
Declined == \E b \in At("before") : Mws[log[b].i] = "bare"

\* the same object whose middlewares all supply a finalizer
Supplying(obj) ==
  IF ~Decorated(obj) \/ obj.kind = "none" THEN obj
  ELSE [obj EXCEPT !.options.Middlewares =
          [i \in 1..Len(@) |-> IF @[i] = "bare" THEN "obs" ELSE @[i]]]

\* a trace without the mark of the no-op finalizers
Unmarked(l) == [e \in 1..Len(l) |-> [l[e] EXCEPT !.noop = FALSE]]

C23_NoFinalizerIsNoOp ==
  Called /\ Declined =>
    /\ Afters = Descending(Len(Mws))
    /\ \A a \in At("after") : log[a].noop <=> Mws[log[a].i] = "bare"
    /\ \E rerr \in DriverAnswers, robj \in DriverObjects :
         /\ Dispatch(call, call.recv, rerr, robj) =
              [log |-> log, err |-> ret.err, obj |-> ret.obj]
         /\ LET other == Dispatch(call, Supplying(call.recv), rerr, robj)
            IN /\ other.log = Unmarked(log)
               /\ other.err = ret.err
               /\ other.obj = Supplying(ret.obj)

\* a query that failed under a middleware with a finalizer and one without
C23_Witness ==
  /\ Called /\ Declined
  /\ call.m = "Conn.QueryContext"
  /\ Mws = << "obs", "bare" >>
  /\ ret.err = ErrFailed
  /\ \E a, b \in At("after") :
       /\ a < b
       /\ log[a].noop /\ log[a].i = 2
       /\ ~log[b].noop /\ log[b].i = 1 /\ log[b].err = ErrFailed

(***************************************************************************)
(* C24: no decorated operation changes the configuration of the wrapped    *)
(* driver, and every object a wrapped driver and its connections hand out  *)
(* (connector, connection, statement, result, rows, transaction) carries   *)
(* exactly the middlewares, the interceptor and the enabled operations of  *)
(* that driver.                                                            *)
(***************************************************************************)
TheDriver == drivers[CHOOSE n \in DOMAIN drivers : "kind" \in DOMAIN drivers[n]]

\* the decorated objects of the state
Descendants ==
  { x \in { conn, held, ret.obj, call.recv } : Decorated(x) /\ x.kind # "none" }

Inherits == \A x \in Descendants : x.options = TheDriver.options

C24_ConfigurationFrame == [][drivers' = drivers /\ Inherits']_vars

\* rows of a statement of a connection of the driver, three generations down
C24_Witness ==
  /\ call.m = "Stmt.QueryContext"
  /\ ret.obj.kind = "rows"
  /\ ret.obj.options = TheDriver.options
  /\ call.recv.options = TheDriver.options
  /\ Len(TheDriver.options.Middlewares) >= 1
  /\ TheDriver.options.Intercept # NilFn

(***************************************************************************)
(* C25: every interceptor and middleware invocation of a decorated method  *)
(* carries the operation tag of that method, the legacy and the            *)
(* context-aware variant of a call carrying the same one: ping, exec,      *)
(* query, prepare, begin, commit, rollback, last_insert_id, rows_affected, *)
(* stmt_exec, stmt_query, stmt_close, rows_close, rows_next.               *)
(***************************************************************************)
TagOf(m) ==
  CASE m = "Conn.Ping" -> Ping
    [] m \in { "Conn.Exec", "Conn.ExecContext" } -> Exec
    [] m \in { "Conn.Query", "Conn.QueryContext" } -> Query
    [] m \in { "Conn.Prepare", "Conn.PrepareContext" } -> Prepare
    [] m \in { "Conn.Begin", "Conn.BeginTx" } -> Begin
    [] m = "Tx.Commit" -> Commit
    [] m = "Tx.Rollback" -> Rollback
    [] m = "Result.LastInsertId" -> LastInsertID
    [] m = "Result.RowsAffected" -> RowsAffected
    [] m \in { "Stmt.Exec", "Stmt.ExecContext" } -> StmtExec
    [] m \in { "Stmt.Query", "Stmt.QueryContext" } -> StmtQuery
    [] m = "Stmt.Close" -> StmtClose
    [] m = "Rows.Close" -> RowsClose
    [] OTHER -> RowsNext

\* the tags the interceptor and the middlewares were handed in the call
Tags == { log[e].op : e \in At("intercept") \cup At("before") }

C25_OwnTag ==
  Called =>
    /\ Tags \subseteq { TagOf(call.m) }
    /\ Enabled /\ Len(Mws) >= 1 /\ ~Refused => Tags = { TagOf(call.m) }

\* the close of a statement under two middlewares
C25_Witness ==
  /\ Called /\ Enabled
  /\ call.m = "Stmt.Close"
  /\ Len(Mws) >= 2
  /\ Befores = Ascending(Len(Mws))
  /\ Tags = { StmtClose }

(***************************************************************************)
(* A connection decorated twice: WrapConn over the connection WrapConn     *)
(* returned.  A method of the outer connection calls the method of the     *)
(* inner one where a singly decorated connection calls its concrete        *)
(* connection.                                                             *)
(***************************************************************************)
\* a decorated object seen through the type assertions of its roles, with
\* the roles of the concrete object behind it
FacadeOfParent(x) == x @@ [nil |-> FALSE, caps |-> x.parent.caps]

\* a decorated object seen through the type assertions of its roles
Facade(x) == IF Decorated(x) THEN x @@ [nil |-> FALSE, caps |-> x.roles] ELSE x

\* the events of one of the two connections
Layer(l, name) == [e \in 1..Len(l) |-> l[e] @@ [layer |-> name]]

\* the method of its parent a method of wConn calls
ParentMethod(m) == IF m = "Conn.Begin" THEN "Conn.BeginTx" ELSE m

\* call c on the outer connection: the concrete call of its trace is the
\* call of the inner connection's method, with the arguments handed down
\* the place in the trace of call c on connection outer where it calls its
\* parent, 0 when it does not
Descent(c, outer) ==
  LET probe == Dispatch(c, outer, NoErr, Concrete({})).log
      reals == { e \in 1..Len(probe) : probe[e].k = "real" }
  IN IF reals = {} THEN 0 ELSE CHOOSE e \in reals : TRUE

\* the call of the parent's method made there, with the arguments handed down
HandedDown(c, outer) ==
  LET e == Dispatch(c, outer, NoErr, Concrete({})).log[Descent(c, outer)]
  IN Call(ParentMethod(c.m), c.op, outer.parent, e.ctx, e.stmt, e.args, e.vals)

\* the trace of a call on the outer connection whose call of its parent at
\* place r did what trace in records
Nested(out, in, r) ==
  [log |-> Layer(SubSeq(out.log, 1, r - 1), "outer")
             \o Layer(in.log, "inner")
             \o Layer(SubSeq(out.log, r + 1, Len(out.log)), "outer"),
   err |-> out.err,
   obj |-> out.obj]

RewrapOptions ==
  { << WithMiddleware([j \in 1..MaxMws |-> PlainAt(j)]) >>,
    << WithMiddleware([j \in 1..MaxMws |-> SpanAt(j)]), WithInterceptor("rewrite"),
       WithOperations(AllOperations) >>,
    << WithInterceptor("name"), WithOperations(<< Ping >>) >> }

RewrapCapSets ==
  { ConnRoles, {}, {"SessionResetter"},
    {"NamedValueChecker", "Execer", "ExecerContext"} }

ConnMethods ==
  { "Conn.Ping", "Conn.Exec", "Conn.ExecContext", "Conn.Query",
    "Conn.QueryContext", "Conn.Prepare", "Conn.PrepareContext", "Conn.Begin",
    "Conn.BeginTx" }

\* the calls of method m on connection c
ConnCalls(c, m) ==
  CASE m \in { "Conn.Ping", "Conn.BeginTx" } ->
         { Call(m, TagOf(m), c, ctx, <<>>, <<>>, <<>>) : ctx \in CallerCtxs }
    [] m = "Conn.Begin" -> { Call(m, TagOf(m), c, <<>>, <<>>, <<>>, <<>>) }
    [] m \in { "Conn.Exec", "Conn.Query" } ->
         { Call(m, TagOf(m), c, <<>>, q, <<>>, vals) :
             q \in Statements, vals \in ValueArgs }
    [] m \in { "Conn.ExecContext", "Conn.QueryContext" } ->
         { Call(m, TagOf(m), c, x[1], x[2], args, <<>>) :
             x \in CallerCtxs \X Statements, args \in NamedArgs }
    [] m = "Conn.Prepare" ->
         { Call(m, TagOf(m), c, <<>>, q, <<>>, <<>>) : q \in Statements }
    [] OTHER ->
         { Call(m, TagOf(m), c, ctx, q, <<>>, <<>>) :
             ctx \in CallerCtxs, q \in Statements }

InitRewrap ==
  /\ \E caps \in RewrapCapSets, inner \in RewrapOptions, outer \in RewrapOptions :
       conn = WrapConn(Facade(WrapConn(Concrete(caps), inner)), outer)
  /\ held = None
  /\ call = Call("", "", None, <<>>, <<>>, <<>>, <<>>)
  /\ log = <<>>
  /\ ret = [err |-> NoErr, obj |-> None]
  /\ Quiet(Imported)

RewrappedCall(m) ==
  \E c \in ConnCalls(conn, m), rerr \in FastPathErrs :
    \E r \in { Descent(c, conn) } :
      \E in \in { IF r = 0
                  THEN Out(<<>>, NoErr, Concrete({}))
                  ELSE Dispatch(HandedDown(c, conn), conn.parent, rerr,
                                Concrete({})) } :
        \E out \in { Dispatch(c, conn, in.err, Facade(in.obj)) } :
          \E done \in { IF r = 0
                        THEN [out EXCEPT !.log = Layer(out.log, "outer")]
                        ELSE Nested(out, in, r) } :
            /\ call' = c
            /\ log' = done.log
            /\ ret' = Returned(done)
            /\ held' = done.obj
            /\ UNCHANGED << conn, registry >>

NextRewrap == \E m \in ConnMethods : RewrappedCall(m)

SpecRewrap == InitRewrap /\ [][NextRewrap]_vars

(***************************************************************************)
(* C26: a connection decorated twice advertises the roles the singly       *)
(* decorated connection advertises, and a call on it runs the outer        *)
(* configuration's hooks around the whole call of the inner connection:    *)
(* outer interceptor and before-hooks, then what the same call on the      *)
(* singly decorated connection does (inner before-hooks, concrete call,    *)
(* inner finalizers), then the outer finalizers, each of them once, in     *)
(* reverse order, with the error the inner connection returned.            *)
(***************************************************************************)
OfLayer(name) == { e \in 1..Len(log) : log[e].layer = name }
InLayer(name) == SelectSeq(log, LAMBDA e : e.layer = name)
\* the trace the events of a layer were made from
Unlayered(l) ==
  [e \in 1..Len(l) |-> [f \in DOMAIN l[e] \ {"layer"} |-> l[e][f]]]

Inner == conn.parent
OuterHooks(k) == SelectSeq(InLayer("outer"), LAMBDA e : e.k = k)
InnerHooks(k) == SelectSeq(InLayer("inner"), LAMBDA e : e.k = k)

C26_OuterAroundInner ==
  /\ conn.roles = Inner.roles
  /\ Called =>
       \* what the inner connection did is what a call on it alone does
       /\ Descent(call, conn) # 0
       /\ \E rerr \in FastPathErrs :
            LET alone == Dispatch(HandedDown(call, conn), Inner, rerr, Concrete({}))
            IN /\ Unlayered(InLayer("inner")) = alone.log
               /\ ret.err = alone.err
               /\ \A a \in 1..Len(OuterHooks("after")) :
                    OuterHooks("after")[a].err = alone.err
       \* the outer hooks enclose it
       /\ \A i \in OfLayer("inner"), o \in OfLayer("outer") :
            IF log[o].k = "after" THEN i < o ELSE o < i
       /\ Enabled =>
            /\ Positions(OuterHooks("before")) = Ascending(Len(Mws))
            /\ Positions(OuterHooks("after")) = Descending(Len(Mws))
       /\ call.op \in Inner.options.operations
            /\ RoleBehind(call.m) \in Inner.parent.caps \cup {"Conn"} =>
            /\ Positions(InnerHooks("before")) =
                 Ascending(Len(Inner.options.Middlewares))
            /\ Positions(InnerHooks("after")) =
                 Descending(Len(Inner.options.Middlewares))

\* a context exec through two configurations of two middlewares each: outer
\* before-hooks, inner before-hooks, the concrete call, inner finalizers,
\* outer finalizers
C26_Witness ==
  /\ Called /\ Enabled
  /\ call.m = "Conn.ExecContext"
  /\ Len(Mws) >= 2 /\ Len(Inner.options.Middlewares) >= 2
  /\ Interceptor # NilFn /\ Inner.options.Intercept = NilFn
  /\ LET n == Len(Mws)
         k == Len(Inner.options.Middlewares)
         skip == 1
     IN /\ Len(log) = skip + 2 * n + 2 * k + 1
        /\ log[1].k = "intercept" /\ log[1].layer = "outer"
        /\ \A j \in 1..n : log[skip + j].k = "before" /\ log[skip + j].layer = "outer"
        /\ \A j \in 1..k : log[skip + n + j].k = "before"
                             /\ log[skip + n + j].layer = "inner"
        /\ log[skip + n + k + 1].k = "real"
        /\ \A j \in 1..k : log[skip + n + k + 1 + j].k = "after"
                             /\ log[skip + n + k + 1 + j].layer = "inner"
        /\ \A j \in 1..n : log[skip + n + 2 * k + 1 + j].k = "after"
                             /\ log[skip + n + 2 * k + 1 + j].layer = "outer"

(***************************************************************************)
(* Concurrent calls of wConn.QueryContext on one connection, each in a     *)
(* goroutine of its own, a step at a time: the interceptor, the middleware *)
(* stage, the concrete call, every finalizer of the deferred loop, the     *)
(* return.  What a call keeps (ctx, query, args, finalizers, err) is       *)
(* local to it.                                                            *)
(***************************************************************************)
\* a goroutine that has not called yet
IdleCall ==
  [pc |-> "idle", given |-> Call("", "", None, <<>>, <<>>, <<>>, <<>>),
   ctx |-> <<>>, query |-> <<>>, args |-> <<>>, finalizers |-> <<>>,
   err |-> NoErr, rows |-> None, log |-> <<>>]

\* the finalizers of whichever call ran its middleware stage, as one slot
\* all calls share would hold them
PendingShared(p) ==
  LET applied == { q \in Procs : procs[q].pc = "deferred" }
  IN procs[CHOOSE q \in applied : \A o \in applied : q <= o].finalizers

\* finalizers: the local variable of the call of goroutine p
Pending(p) == procs[p].finalizers

InitCalls ==
  /\ \E mws \in { [j \in 1..MaxMws |-> PlainAt(j)], [j \in 1..MaxMws |-> SpanAt(j)] },
        i \in { NilFn, "rewrite" } :
       conn = WrapConn(Concrete(ConnRoles),
                       << WithMiddleware(mws), WithInterceptor(i) >>)
  /\ held = None
  /\ call = Call("", "", None, <<>>, <<>>, <<>>, <<>>)
  /\ log = <<>>
  /\ ret = [err |-> NoErr, obj |-> None]
  /\ drivers = Imported
  /\ regMu = Unlocked
  /\ procs = [p \in Procs |-> IdleCall]

\* queryerCtx, ok := c.parent.(driver.QueryerContext)
QueryEnter(p) ==
  /\ procs[p].pc = "idle"
  /\ \E c \in { c \in ConnCalls(conn, "Conn.QueryContext") : c.args # <<>> } :
       procs' = [procs EXCEPT ![p] =
                   [@ EXCEPT !.given = c, !.ctx = c.ctx, !.query = c.stmt,
                             !.args = c.args,
                             !.pc = IF "QueryerContext" \in conn.parent.caps
                                    THEN "entered" ELSE "returned",
                             !.err = IF "QueryerContext" \in conn.parent.caps
                                     THEN NoErr ELSE ErrSkip]]
  /\ UNCHANGED << session, drivers, regMu >>

\* ctx, query, args = c.options.Intercept(ctx, Query, query, args)
QueryIntercept(p) ==
  /\ procs[p].pc = "entered"
  /\ LET me == procs[p]
         hasI == conn.options.Intercept # NilFn
         ic == Intercept(conn.options.Intercept, me.ctx, Query, me.query, me.args)
     IN procs' = [procs EXCEPT ![p] =
          IF hasI
          THEN [@ EXCEPT !.pc = "intercepted", !.ctx = ic.ctx,
                         !.query = ic.statement, !.args = ic.args,
                         !.log = Append(@, EvIntercept(me.ctx, Query, me.query,
                                                       me.args))]
          ELSE [@ EXCEPT !.pc = "intercepted"]]
  /\ UNCHANGED << session, drivers, regMu >>

\* newCtx, finalizers := apply(ctx, c.options.Middlewares, Query, query, args)
QueryApply(p) ==
  /\ procs[p].pc = "intercepted"
  /\ LET me == procs[p]
         ap == apply(me.ctx, conn.options.Middlewares, Query, me.query, me.args)
     IN procs' = [procs EXCEPT ![p] =
          IF Query \in conn.options.operations
          THEN [@ EXCEPT !.pc = "applied", !.ctx = ap.ctx,
                         !.finalizers =
                           [j \in 1..Len(ap.finalizers) |->
                              ap.finalizers[j] @@ [of |-> p]],
                         !.log = @ \o ap.log]
          ELSE [@ EXCEPT !.pc = "applied"]]
  /\ UNCHANGED << session, drivers, regMu >>

\* rows, err = queryerCtx.QueryContext(ctx, query, args)
QueryParent(p) ==
  /\ procs[p].pc = "applied"
  /\ \E rerr \in DriverErrs :
       LET me == procs[p]
       IN procs' = [procs EXCEPT ![p] =
            [@ EXCEPT !.pc = "deferred", !.err = rerr,
                      !.rows = IF rerr # NoErr THEN None
                               ELSE wrapRows(me.ctx, Concrete({}), conn.options),
                      !.log = Append(@, EvReal("QueryerContext.QueryContext",
                                               me.ctx, me.query, me.args, <<>>,
                                               rerr))]]
  /\ UNCHANGED << session, drivers, regMu >>

\* one turn of the deferred loop: onFinish(err)
QueryFinalize(p) ==
  /\ procs[p].pc = "deferred"
  /\ Pending(p) # <<>>
  /\ LET onFinish == Head(Pending(p))
     IN procs' = [procs EXCEPT ![p] =
          [@ EXCEPT !.finalizers = Tail(Pending(p)),
                    !.log = Append(@, EvAfter(onFinish.mw, onFinish.noop,
                                              procs[p].err)
                                        @@ [of |-> onFinish.of])]]
  /\ UNCHANGED << session, drivers, regMu >>

QueryReturn(p) ==
  /\ procs[p].pc = "deferred"
  /\ Pending(p) = <<>>
  /\ procs' = [procs EXCEPT ![p] = [@ EXCEPT !.pc = "returned"]]
  /\ UNCHANGED << session, drivers, regMu >>

NextCalls ==
  \E p \in Procs :
    \/ QueryEnter(p)
    \/ QueryIntercept(p)
    \/ QueryApply(p)
    \/ QueryParent(p)
    \/ QueryFinalize(p)
    \/ QueryReturn(p)

SpecCalls == InitCalls /\ [][NextCalls]_vars

(***************************************************************************)
(* C27: however concurrent calls on one connection interleave, each call   *)
(* invokes only the finalizers its own middleware stage returned, each     *)
(* once, in reverse order, with its own error, and does and returns what   *)
(* the same call does and returns when it runs alone.                      *)
(***************************************************************************)
\* the finalizers goroutine p has invoked so far
Invoked(p) == SelectSeq(procs[p].log, LAMBDA e : e.k = "after")

\* a trace without the mark of the call a finalizer belongs to
Unowned(l) ==
  [e \in 1..Len(l) |-> [f \in DOMAIN l[e] \ {"of"} |-> l[e][f]]]

C27_CallsIsolated ==
  \A p \in Procs :
    /\ \A a \in 1..Len(Invoked(p)) :
         /\ Invoked(p)[a].of = p
         /\ Invoked(p)[a].err = procs[p].err
         /\ Invoked(p)[a].i = Len(conn.options.Middlewares) - a + 1
    /\ procs[p].pc = "returned" =>
         /\ Query \in conn.options.operations =>
              Positions(Invoked(p)) = Descending(Len(conn.options.Middlewares))
         /\ \E rerr \in DriverErrs :
              LET c == procs[p].given
                  alone == wConn_QueryContext(conn, c.ctx, c.stmt, c.args, rerr,
                                              Concrete({}))
              IN /\ Unowned(procs[p].log) = alone.log
                 /\ procs[p].err = alone.err
                 /\ procs[p].rows = alone.obj

\* two calls in the middle of their deferred loops at once, one failed and
\* one not, a third returned
C27_Witness ==
  \E p, q, r \in Procs :
    /\ procs[p].pc = "deferred" /\ procs[q].pc = "deferred"
    /\ procs[r].pc = "returned"
    /\ Len(Invoked(p)) = 1 /\ Len(Invoked(q)) = 1
    /\ Len(Pending(p)) >= 1 /\ Len(Pending(q)) >= 1
    /\ procs[p].err = NoErr /\ procs[q].err = ErrFailed
    /\ Len(Invoked(r)) = Len(conn.options.Middlewares)

(***************************************************************************)
(* Caller and CallerCtx.  A frame is the name of its function: the         *)
(* segments of the import path before the last, and the dot-separated      *)
(* parts of the last segment (package, receiver, function).  A stack is    *)
(* the frames of the goroutine from the function that calls Caller or      *)
(* CallerCtx outward.                                                      *)
(***************************************************************************)
skipCallers == 6
stackSize == 30

RECURSIVE Join(_, _)
\* strings.Join(parts, sep)
Join(parts, sep) ==
  IF parts = <<>> THEN ""
  ELSE IF Len(parts) = 1 THEN parts[1]
  ELSE parts[1] \o sep \o Join(Tail(parts), sep)

Frame(path, last, brace) == [path |-> path, last |-> last, brace |-> brace]

\* frame.Function
Function(f) == Join(f.path \o << Join(f.last, ".") >>, "/")

\* parts := strings.Split(fn, "/"); the last part cut at its first dot; joined
Package(f) ==
  Join(f.path \o << IF f.last = <<>> THEN "" ELSE f.last[1] >>, "/")

\* path.Base(path.Dir(fn)) + "/" + path.Base(fn)
Short(f) ==
  (IF f.path = <<>> THEN "." ELSE f.path[Len(f.path)]) \o "/" \o Join(f.last, ".")

\* runtime.Callers(skip, pc): at most Len(pc) frames, the first skip left out
Callers(skip, size, stack) ==
  IF Len(stack) <= skip THEN <<>>
  ELSE SubSeq(stack, skip + 1,
              IF Len(stack) - skip > size THEN skip + size ELSE Len(stack))

RECURSIVE WalkListless(_, _, _)
\* the loop of Caller without the test of the skip list
WalkListless(frames, p, skipPackages) ==
  IF Len(frames) <= 1 THEN p
  ELSE
    LET frame == Head(frames)
        fn == Function(frame)
        pkg == Package(frame)
    IN IF fn = "" \/ frame.brace THEN WalkListless(Tail(frames), p, skipPackages)
       ELSE IF pkg = "database/sql" \/ pkg = "github.com/bool64/dbwrap"
       THEN WalkListless(Tail(frames), pkg, skipPackages)
       ELSE Short(frame)

RECURSIVE Walk(_, _, _)
\* the loop of Caller: frames.Next() says more = false with the last frame,
\* and the loop leaves before it looks at that frame
Walk(frames, p, skipPackages) ==
  IF Len(frames) <= 1 THEN p
  ELSE
    LET frame == Head(frames)
        fn == Function(frame)
        pkg == Package(frame)
    IN IF fn = "" \/ frame.brace THEN Walk(Tail(frames), p, skipPackages)
       ELSE IF pkg = "database/sql" \/ pkg = "github.com/bool64/dbwrap"
               \/ \E i \in 1..Len(skipPackages) : skipPackages[i] = pkg
       THEN Walk(Tail(frames), pkg, skipPackages)
       ELSE Short(frame)

FrameCallers == Frame(<<>>, << "runtime", "Callers" >>, FALSE)
FrameCaller == Frame(<< "github.com", "bool64" >>, << "dbwrap", "Caller" >>, FALSE)
FrameCallerCtx == Frame(<< "github.com", "bool64" >>, << "dbwrap", "CallerCtx" >>, FALSE)

\* Caller called on the stack given
Caller(stack, skipPackages) ==
  Walk(Callers(skipCallers, stackSize, << FrameCallers, FrameCaller >> \o stack),
       "", skipPackages)

\* context.WithValue(ctx, callerCtxKey{}, caller)
WithCaller(ctx, caller) == ctx \o << "callerCtxKey", caller >>

\* ctx.Value(callerCtxKey{}).(string)
CallerValue(ctx) ==
  LET at == { i \in 1..(Len(ctx) - 1) : ctx[i] = "callerCtxKey" }
  IN IF at = {} THEN [ok |-> FALSE, caller |-> ""]
     ELSE [ok |-> TRUE,
           caller |-> ctx[(CHOOSE i \in at : \A j \in at : j <= i) + 1]]

\* CallerCtx that takes an empty name for no name
CallerCtxNonEmpty(ctx, stack, skipPackages) ==
  IF CallerValue(ctx).ok /\ CallerValue(ctx).caller # ""
  THEN CallerValue(ctx).caller
  ELSE Caller(<< FrameCallerCtx >> \o stack, skipPackages)

\* CallerCtx called on the stack given: its own frame is on the stack of the
\* Caller it calls
CallerCtx(ctx, stack, skipPackages) ==
  IF CallerValue(ctx).ok THEN CallerValue(ctx).caller
  ELSE Caller(<< FrameCallerCtx >> \o stack, skipPackages)

\* frames of a program: a function literal, database/sql, this package, a
\* query builder, the application
FramePool ==
  { Frame(<< "github.com", "acme" >>, << "app", "{closure}" >>, TRUE),
    Frame(<< "database" >>, << "sql", "(*DB)", "QueryContext" >>, FALSE),
    Frame(<< "github.com", "bool64" >>, << "dbwrap", "wConn", "QueryContext" >>, FALSE),
    Frame(<< "github.com", "acme" >>, << "builder", "Build" >>, FALSE),
    Frame(<< "github.com", "acme" >>, << "app", "Run" >>, FALSE) }

\* the three frames nearest the call: no path of Caller or CallerCtx reads them
Nearest ==
  << Frame(<< "github.com", "acme" >>, << "app", "middleware" >>, FALSE),
     Frame(<< "github.com", "bool64" >>, << "dbwrap", "apply" >>, FALSE),
     Frame(<< "github.com", "bool64" >>, << "dbwrap", "wConn", "QueryContext" >>, FALSE) >>

Stacks ==
  { SubSeq(Nearest, 1, k) : k \in 0..Len(Nearest) }
    \cup { Nearest \o rest :
             rest \in UNION { [1..n -> FramePool] : n \in 1..MaxFrames } }

SkipLists == { <<>>, << "github.com/acme/builder" >> }

PinContexts ==
  { Background, WithCaller(Background, "test"), WithCaller(Background, ""),
    WithCaller(WithCaller(Background, "test"), "handoff") \o << "span" >> }

InitCaller ==
  /\ conn = None
  /\ held = None
  /\ call = Call("", "", None, <<>>, <<>>, <<>>, <<>>)
  /\ log = <<>>
  /\ ret = [err |-> NoErr, obj |-> ""]
  /\ Quiet(Imported)

\* args is the stack of the caller, vals the skipPackages
CallerCall ==
  /\ call.m = ""
  /\ \E stack \in Stacks, skipPackages \in SkipLists :
       /\ call' = Call("Caller", "", None, <<>>, <<>>, stack, skipPackages)
       /\ ret' = [err |-> NoErr, obj |-> Caller(stack, skipPackages)]
       /\ UNCHANGED << conn, held, log, registry >>

CallerCtxCall ==
  /\ call.m = ""
  /\ \E ctx \in PinContexts, stack \in Stacks, skipPackages \in SkipLists :
       /\ call' = Call("CallerCtx", "", None, ctx, <<>>, stack, skipPackages)
       /\ ret' = [err |-> NoErr, obj |-> CallerCtx(ctx, stack, skipPackages)]
       /\ UNCHANGED << conn, held, log, registry >>

NextCaller == CallerCall \/ CallerCtxCall

SpecCaller == InitCaller /\ [][NextCaller]_vars

(***************************************************************************)
(* C28, as stated: CallerCtx returns the name pinned in the context by     *)
(* WithCaller as it is, whatever the skip list and the stack; with no name *)
(* pinned it returns what Caller returns for the same skip list on the     *)
(* same stack.                                                             *)
(***************************************************************************)
Resolving == call.m = "CallerCtx"
Pinned == CallerValue(call.ctx).ok

C28_Original ==
  Resolving =>
    ret.obj = IF Pinned THEN CallerValue(call.ctx).caller
              ELSE Caller(call.args, call.vals)

(***************************************************************************)
(* C28, amended: CallerCtx returns the name pinned in the context by       *)
(* WithCaller as it is, whatever the skip list and the stack.  With no     *)
(* name pinned it returns what the Caller it calls returns: CallerCtx's    *)
(* own frame is one of the frames Caller leaves out, so the walk starts    *)
(* one frame nearer the call than the walk of Caller called from the same  *)
(* place, and returns that frame's function when it is not skipped.        *)
(***************************************************************************)
\* the frame a walk from CallerCtx looks at and a walk from Caller does not
Nearer(stack) == stack[skipCallers - 2]

C28_PinnedOrOneFrameNearer ==
  Resolving =>
    ret.obj =
      IF Pinned THEN CallerValue(call.ctx).caller
      ELSE IF Len(call.args) <= skipCallers - 2 THEN ""
      ELSE Walk(<< Nearer(call.args) >>
                  \o Callers(skipCallers, stackSize - 1,
                             << FrameCallers, FrameCaller >> \o call.args),
                "", call.vals)

\* a name pinned over an earlier one, on a stack where Caller finds a name
C28_Witness ==
  /\ Resolving /\ Pinned
  /\ Len(call.ctx) = 6
  /\ Caller(call.args, call.vals) = "acme/app.Run"
  /\ ret.obj = "handoff"

(***************************************************************************)
(* C29: Caller returns the empty string whenever every frame it inspects   *)
(* is skipped: a function literal, a frame of database/sql, of this        *)
(* package, or of a package of the skip list.                              *)
(***************************************************************************)
\* the frames the walk of Caller has to go by, its own two left out
Inspected(stack) == Callers(skipCallers - 2, stackSize, stack)

Skippable(f, skipPackages) ==
  \/ Function(f) = ""
  \/ f.brace
  \/ Package(f) \in { "database/sql", "github.com/bool64/dbwrap" }
  \/ \E i \in 1..Len(skipPackages) : skipPackages[i] = Package(f)

C29_EmptyWhenExhausted ==
  /\ call.m = "Caller"
  /\ \A i \in 1..Len(Inspected(call.args)) :
       Skippable(Inspected(call.args)[i], call.vals)
  => ret.obj = ""

(***************************************************************************)
(* C30: a prepare that returns a nil error returns a decorated statement   *)
(* with a concrete statement behind it; PrepareContext on a connection     *)
(* whose concrete connection lacks ConnPrepareContext does not return      *)
(* success with a statement over no delegate.                              *)
(***************************************************************************)
C30_PreparedHasDelegate ==
  Called /\ call.m \in { "Conn.Prepare", "Conn.PrepareContext" }
         /\ ret.err = NoErr =>
    /\ ret.obj.kind = "stmt"
    /\ ~ret.obj.parent.nil

(***************************************************************************)
(* C31: the decorated connection that Connect of a decorated connector     *)
(* returns advertises the roles that Open of the decorated driver          *)
(* advertises over the same concrete connection (the named-value-check and *)
(* the session-reset role among them), with the same concrete connection   *)
(* and the same Options behind it, so that both run the same pipeline.     *)
(***************************************************************************)
Connected == call.m = "Driver.Connect" /\ ret.err = NoErr

\* what Open of the same decorated driver returns over concrete connection c
OpenedOver(c) == wDriver_Open(call.recv, NoErr, c).obj

C31_ConnectAsOpen ==
  Connected =>
    /\ conn.roles = OpenedOver(conn.parent).roles
    /\ conn.parent = OpenedOver(conn.parent).parent
    /\ conn.options = OpenedOver(conn.parent).options

(***************************************************************************)
(* A decorated driver made by Wrap or a decorated connector made by        *)
(* WrapConnector, handed to a program that probes its roles and calls the  *)
(* methods it advertises: Driver, OpenConnector, Connect and Open, and     *)
(* then the methods of the connection opened.                              *)
(***************************************************************************)
InitConnector ==
  /\ conn = None
  /\ \E caps \in DriverCapSets, options \in DriverOptions :
       \/ held = Wrap(Concrete(caps), options)
       \/ held = WrapConnector(Connector(Concrete(caps)), options)
  /\ call = Call("", "", None, <<>>, <<>>, <<>>, <<>>)
  /\ log = <<>>
  /\ ret = [err |-> NoErr, obj |-> None]
  /\ Quiet(Imported)

\* a program calls a method of an object when the object has the role
Advertises(x, role) == Decorated(x) /\ x.kind = "driver" /\ role \in x.roles

ConnectorDriver ==
  /\ conn = None
  /\ Advertises(held, "Connector")
  /\ call' = Call("Connector.Driver", "", held, <<>>, <<>>, <<>>, <<>>)
  /\ log' = <<>>
  /\ ret' = [err |-> NoErr, obj |-> wDriver_Driver(held)]
  /\ held' = wDriver_Driver(held)
  /\ UNCHANGED << conn, registry >>

ConnectorOpenConnector ==
  /\ conn = None
  /\ Advertises(held, "DriverContext")
  /\ \E rerr \in DriverErrs :
       LET out == wDriver_OpenConnector(held, rerr, Connector(held.parent))
       IN /\ call' = Call("Driver.OpenConnector", "", held, <<>>, <<>>, <<>>, <<>>)
          /\ log' = out.log
          /\ ret' = Returned(out)
          /\ held' = IF out.err = NoErr THEN out.obj ELSE held
          /\ UNCHANGED << conn, registry >>

ConnectorConnect ==
  /\ conn = None
  /\ Advertises(held, "Connector")
  /\ \E ctx \in CallerCtxs, rerr \in DriverErrs, caps \in ConnCapSets :
       LET out == wDriver_Connect(held, ctx, rerr, Concrete(caps))
       IN /\ call' = Call("Driver.Connect", "", held, ctx, <<>>, <<>>, <<>>)
          /\ log' = out.log
          /\ ret' = Returned(out)
          /\ conn' = out.obj
          /\ UNCHANGED << held, registry >>

ConnectorOpen ==
  /\ conn = None
  /\ Advertises(held, "Driver")
  /\ \E rerr \in DriverErrs, caps \in ConnCapSets :
       LET out == wDriver_Open(held, rerr, Concrete(caps))
       IN /\ call' = Call("Driver.Open", "", held, <<>>, <<>>, <<>>, <<>>)
          /\ log' = out.log
          /\ ret' = Returned(out)
          /\ conn' = out.obj
          /\ UNCHANGED << held, registry >>

ConnectorConnPing ==
  /\ conn.kind = "conn"
  /\ \E ctx \in CallerCtxs, rerr \in DriverErrs :
       LET out == wConn_Ping(conn, ctx, rerr)
       IN /\ call' = Call("Conn.Ping", Ping, conn, ctx, <<>>, <<>>, <<>>)
          /\ log' = out.log
          /\ ret' = Returned(out)
          /\ UNCHANGED << conn, held, registry >>

NextConnector ==
  \/ ConnectorDriver
  \/ ConnectorOpenConnector
  \/ ConnectorConnect
  \/ ConnectorOpen
  \/ ConnectorConnPing

SpecConnector == InitConnector /\ [][NextConnector]_vars

(***************************************************************************)
(* C32: a decorated driver (the one Wrap returns, the one WrapConnector    *)
(* returns and the one its Driver() returns) advertises the open-connector *)
(* role exactly when the concrete driver behind it has the role, so that   *)
(* OpenConnector called on a decorated driver that advertises the role     *)
(* always finds a concrete driver to forward to and never fails on one     *)
(* that lacks the role.                                                    *)
(***************************************************************************)
C32_OpenConnectorRole ==
  /\ Decorated(held) /\ held.kind = "driver" =>
       ("DriverContext" \in held.roles <=> "DriverContext" \in held.parent.caps)
  /\ call.m = "Driver.OpenConnector" => ret.err # Panic

(***************************************************************************)
(* The optional roles of wRows.  rval and rerr are what the concrete rows  *)
(* answer when they have the role.                                         *)
(***************************************************************************)
\* what a method outside the pipeline hands back: the value it returns
Answer(l, err, val) == Out(l, err, [val |-> val])

Forwarded(m) == << EvReal(m, <<>>, <<>>, <<>>, <<>>, NoErr) >>

wRows_HasNextResultSet(r, rval) ==
  IF "RowsNextResultSet" \in r.parent.caps
  THEN Answer(Forwarded("RowsNextResultSet.HasNextResultSet"), NoErr, rval)
  ELSE Answer(<<>>, NoErr, FALSE)

wRows_NextResultSet(r, rerr) ==
  IF "RowsNextResultSet" \in r.parent.caps
  THEN Answer(<< EvReal("RowsNextResultSet.NextResultSet", <<>>, <<>>, <<>>, <<>>,
                        rerr) >>,
              rerr, <<>>)
  ELSE Answer(<<>>, EOF, <<>>)

wRows_ColumnTypeDatabaseTypeName(r, index, rval) ==
  IF "RowsColumnTypeDatabaseTypeName" \in r.parent.caps
  THEN Answer(Forwarded("RowsColumnTypeDatabaseTypeName.ColumnTypeDatabaseTypeName"),
              NoErr, rval)
  ELSE Answer(<<>>, NoErr, "")

wRows_ColumnTypeLength(r, index, rval) ==
  IF "RowsColumnTypeLength" \in r.parent.caps
  THEN Answer(Forwarded("RowsColumnTypeLength.ColumnTypeLength"), NoErr, rval)
  ELSE Answer(<<>>, NoErr, << 0, FALSE >>)

wRows_ColumnTypeNullable(r, index, rval) ==
  IF "RowsColumnTypeNullable" \in r.parent.caps
  THEN Answer(Forwarded("RowsColumnTypeNullable.ColumnTypeNullable"), NoErr, rval)
  ELSE Answer(<<>>, NoErr, << FALSE, FALSE >>)

wRows_ColumnTypePrecisionScale(r, index, rval) ==
  IF "RowsColumnTypePrecisionScale" \in r.parent.caps
  THEN Answer(Forwarded("RowsColumnTypePrecisionScale.ColumnTypePrecisionScale"),
              NoErr, rval)
  ELSE Answer(<<>>, NoErr, << 0, 0, FALSE >>)

\* the embedded method of the concrete rows
withRowsColumnTypeScanType(r, index, rval) ==
  Answer(Forwarded("RowsColumnTypeScanType.ColumnTypeScanType"), NoErr, rval)

(***************************************************************************)
(* Decorated rows over concrete rows of every capability set, and the      *)
(* calls database/sql makes on the roles they advertise.                   *)
(***************************************************************************)
RowsRoles ==
  { "RowsNextResultSet", "RowsColumnTypeDatabaseTypeName", "RowsColumnTypeLength",
    "RowsColumnTypeNullable", "RowsColumnTypePrecisionScale",
    "RowsColumnTypeScanType" }

Columns == { 0, 1 }
TypeNames == { "INT", "" }
Lengths == { << 8, TRUE >>, << 0, FALSE >> }
Nullables == { << TRUE, TRUE >>, << FALSE, FALSE >> }
PrecisionScales == { << 10, 2, TRUE >>, << 0, 0, FALSE >> }
ScanTypes == { "int64" }

InitRows ==
  /\ \E caps \in SUBSET RowsRoles :
       /\ conn = wrapConn(Concrete({}),
                          prepareOptions(<< WithMiddleware(<< "obs" >>) >>).o)
       /\ held = wrapRows(<< "caller" >>, Concrete(caps), conn.options)
  /\ call = Call("", "", None, <<>>, <<>>, <<>>, <<>>)
  /\ log = <<>>
  /\ ret = [err |-> NoErr, obj |-> None]
  /\ Quiet(Imported)

\* one call of a method of the rows held, which stay as they are
RowsAnswer(m, out) ==
  /\ call' = Call(m, "", held, <<>>, <<>>, <<>>, <<>>)
  /\ log' = out.log
  /\ ret' = Returned(out)
  /\ UNCHANGED << conn, held, registry >>

RowsHasNextResultSet ==
  /\ "RowsNextResultSet" \in held.roles
  /\ \E rval \in BOOLEAN :
       RowsAnswer("Rows.HasNextResultSet", wRows_HasNextResultSet(held, rval))

RowsNextResultSet ==
  /\ "RowsNextResultSet" \in held.roles
  /\ \E rerr \in NextErrs :
       RowsAnswer("Rows.NextResultSet", wRows_NextResultSet(held, rerr))

RowsColumnTypeDatabaseTypeName ==
  /\ "RowsColumnTypeDatabaseTypeName" \in held.roles
  /\ \E index \in Columns, rval \in TypeNames :
       RowsAnswer("Rows.ColumnTypeDatabaseTypeName",
                  wRows_ColumnTypeDatabaseTypeName(held, index, rval))

RowsColumnTypeLength ==
  /\ "RowsColumnTypeLength" \in held.roles
  /\ \E index \in Columns, rval \in Lengths :
       RowsAnswer("Rows.ColumnTypeLength", wRows_ColumnTypeLength(held, index, rval))

RowsColumnTypeNullable ==
  /\ "RowsColumnTypeNullable" \in held.roles
  /\ \E index \in Columns, rval \in Nullables :
       RowsAnswer("Rows.ColumnTypeNullable",
                  wRows_ColumnTypeNullable(held, index, rval))

RowsColumnTypePrecisionScale ==
  /\ "RowsColumnTypePrecisionScale" \in held.roles
  /\ \E index \in Columns, rval \in PrecisionScales :
       RowsAnswer("Rows.ColumnTypePrecisionScale",
                  wRows_ColumnTypePrecisionScale(held, index, rval))

RowsColumnTypeScanType ==
  /\ "RowsColumnTypeScanType" \in held.roles
  /\ \E index \in Columns, rval \in ScanTypes :
       RowsAnswer("Rows.ColumnTypeScanType",
                  withRowsColumnTypeScanType(held, index, rval))

NextRows ==
  \/ RowsHasNextResultSet
  \/ RowsNextResultSet
  \/ RowsColumnTypeDatabaseTypeName
  \/ RowsColumnTypeLength
  \/ RowsColumnTypeNullable
  \/ RowsColumnTypePrecisionScale
  \/ RowsColumnTypeScanType
  \/ RowsNextCall

SpecRows == InitRows /\ [][NextRows]_vars

(***************************************************************************)
(* C33: decorated rows advertise RowsColumnTypeScanType exactly when the   *)
(* concrete rows have it, and advertise the five other optional roles      *)
(* whatever the concrete rows have; a method of a role the concrete rows   *)
(* lack does not call them and answers with a neutral value: no next       *)
(* result set, io.EOF, the empty name, and not-ok for length, nullable and *)
(* precision/scale.  A method of a role they have answers what they do.    *)
(***************************************************************************)
RoleOf(m) ==
  CASE m \in { "Rows.HasNextResultSet", "Rows.NextResultSet" } -> "RowsNextResultSet"
    [] m = "Rows.ColumnTypeDatabaseTypeName" -> "RowsColumnTypeDatabaseTypeName"
    [] m = "Rows.ColumnTypeLength" -> "RowsColumnTypeLength"
    [] m = "Rows.ColumnTypeNullable" -> "RowsColumnTypeNullable"
    [] m = "Rows.ColumnTypePrecisionScale" -> "RowsColumnTypePrecisionScale"
    [] m = "Rows.ColumnTypeScanType" -> "RowsColumnTypeScanType"
    [] OTHER -> "Rows"

\* the neutral answer of method m
Neutral(m) ==
  CASE m = "Rows.HasNextResultSet" -> [err |-> NoErr, obj |-> [val |-> FALSE]]
    [] m = "Rows.NextResultSet" -> [err |-> EOF, obj |-> [val |-> <<>>]]
    [] m = "Rows.ColumnTypeDatabaseTypeName" -> [err |-> NoErr, obj |-> [val |-> ""]]
    [] m = "Rows.ColumnTypeLength" -> [err |-> NoErr, obj |-> [val |-> << 0, FALSE >>]]
    [] m = "Rows.ColumnTypeNullable" ->
         [err |-> NoErr, obj |-> [val |-> << FALSE, FALSE >>]]
    [] m = "Rows.ColumnTypePrecisionScale" ->
         [err |-> NoErr, obj |-> [val |-> << 0, 0, FALSE >>]]

OptionalCall == call.m # "" /\ RoleOf(call.m) # "Rows"

C33_RowsRoles ==
  /\ "RowsColumnTypeScanType" \in held.roles
       <=> "RowsColumnTypeScanType" \in held.parent.caps
  /\ RowsRoles \ {"RowsColumnTypeScanType"} \subseteq held.roles
  /\ OptionalCall /\ RoleOf(call.m) \notin held.parent.caps =>
       /\ log = <<>>
       /\ ret = Neutral(call.m)
  /\ OptionalCall /\ RoleOf(call.m) \in held.parent.caps =>
       /\ Len(log) = 1
       /\ log[1].k = "real"

\* rows without the next-result-set role asked for the next result set
C33_Witness ==
  /\ call.m = "Rows.NextResultSet"
  /\ "RowsNextResultSet" \notin held.parent.caps
  /\ "RowsColumnTypeScanType" \in held.parent.caps
  /\ "RowsColumnTypeScanType" \in held.roles
  /\ ret.err = EOF

(***************************************************************************)
(* C34: in the before phase of a call every middleware but the first       *)
(* receives the context the middleware configured immediately before it    *)
(* returned; the first receives the context the interceptor returned, or,  *)
(* in a context-aware method without an interceptor, the caller's; and a   *)
(* concrete call that takes a context receives the one the last middleware *)
(* returned.                                                               *)
(***************************************************************************)
\* the before-hooks invoked in the call, in the order invoked
Hooks == OfKind("before")

\* the context the middleware of before-hook e returned
ReturnedBy(e) == Middleware(Mws[e.i], e.ctx, e.op, e.stmt, e.args).nCtx

C34_ContextChain ==
  Called /\ Hooks # <<>> =>
    /\ At("intercept") # {} => Hooks[1].ctx = Rewritten.ctx
    /\ At("intercept") = {} /\ ContextAware => Hooks[1].ctx = call.ctx
    /\ \A j \in 2..Len(Hooks) : Hooks[j].ctx = ReturnedBy(Hooks[j - 1])
    /\ \A r \in At("real") :
         log[r].ctx # <<>> => log[r].ctx = ReturnedBy(Hooks[Len(Hooks)])

\* a context exec through an interceptor and two middlewares, the first of
\* which derives a context
C34_Witness ==
  /\ call.m = "Conn.ExecContext"
  /\ At("intercept") # {}
  /\ Len(Hooks) = MaxMws
  /\ Hooks[1].ctx = Append(call.ctx, "intercepted")
  /\ Hooks[2].ctx = Append(Hooks[1].ctx, "span")
  /\ \E r \in At("real") : DerivedFrom(Hooks[2].ctx, log[r].ctx)

(***************************************************************************)
(* C35: the result, rows, transaction or statement a decorated call        *)
(* returns stores the context that came out of the pipeline of that call   *)
(* (what the last middleware returned; without middlewares what the        *)
(* interceptor returned; without either the context the call started       *)
(* from).  The pipeline of every later operation without a context         *)
(* argument on that object (last_insert_id, rows_affected, rows_next,      *)
(* rows_close, commit, rollback, stmt_close, legacy stmt exec and query)   *)
(* starts from the stored context, and the operation leaves the stored     *)
(* context as it was, whatever its middlewares return.                     *)
(***************************************************************************)
\* the context a call starts from
EntryContext ==
  CASE ContextAware -> call.ctx
    [] call.recv.kind = "conn" -> Background
    [] OTHER -> call.recv.ctx

\* the context that comes out of the pipeline of the call
PipelineContext ==
  CASE Hooks # <<>> -> ReturnedBy(Hooks[Len(Hooks)])
    [] At("intercept") # {} -> Rewritten.ctx
    [] OTHER -> EntryContext

Produced ==
  Called /\ ret.err = NoErr /\ ret.obj.kind \in { "result", "rows", "tx", "stmt" }

Contextless ==
  call.m \in { "Result.LastInsertId", "Result.RowsAffected", "Rows.Next",
               "Rows.Close", "Tx.Commit", "Tx.Rollback", "Stmt.Close",
               "Stmt.Exec", "Stmt.Query" }

\* the interceptor and before-hook invocations of the call
Entries == At("intercept") \cup At("before")

Preparing == Called /\ call.m \in { "Conn.Prepare", "Conn.PrepareContext" }
Executing == Called /\ call.op \in { StmtExec, StmtQuery }

C36_RewrittenOnce ==
  /\ Preparing /\ ret.err = NoErr =>
       ret.obj.query = IF At("intercept") # {} THEN Rewritten.statement
                       ELSE call.stmt
  /\ Executing =>
       /\ \A e \in Entries :
            /\ log[e].stmt = call.recv.query
            /\ Count(log[e].stmt, "#intercepted") <= 1
       /\ held.kind = "stmt" => held.query = call.recv.query

\* a statement prepared under a rewriting interceptor, executed and kept:
\* the interceptor returns a second rewrite, which nobody receives
C36_Witness ==
  /\ Executing
  /\ At("intercept") # {}
  /\ Hooks # <<>>
  /\ Count(call.recv.query, "#intercepted") = 1
  /\ Count(Rewritten.statement, "#intercepted") = 2
  /\ Hooks[1].stmt = call.recv.query
  /\ held = call.recv

(***************************************************************************)
(* C37: Exec, ExecContext, Query and QueryContext of a decorated           *)
(* connection whose concrete connection lacks the role behind the method   *)
(* (Execer, ExecerContext, Queryer, QueryerContext) return driver.ErrSkip  *)
(* and no object at once: the interceptor, the before-hooks and the        *)
(* finalizers are not invoked and the concrete connection is not called.   *)
(***************************************************************************)
C37_RefusedAtOnce ==
  Called /\ Refused =>
    /\ log = <<>>
    /\ ret = [err |-> ErrSkip, obj |-> None]

\* a context query on a connection without QueryerContext, under an
\* interceptor and middlewares with query enabled
C37_Witness ==
  /\ call.m = "Conn.QueryContext"
  /\ "QueryerContext" \notin call.recv.parent.caps
  /\ Interceptor # NilFn
  /\ Len(Mws) >= 1
  /\ Enabled
  /\ log = <<>>
  /\ ret.err = ErrSkip

(***************************************************************************)
(* C38, as stated: Caller returns the first frame its walk comes to that   *)
(* is no function literal, not of database/sql, not of this package and    *)
(* not of a package of the skip list, as the last segment of the package   *)
(* path, a slash, and package.function.                                    *)
(***************************************************************************)
\* the frames the loop of Caller looks at: those runtime.Callers hands over
\* but the last
Walked(stack) ==
  LET frames == Callers(skipCallers, stackSize, << FrameCallers, FrameCaller >> \o stack)
  IN SubSeq(frames, 1, Len(frames) - 1)

\* the places of the frames walked that are not skipped
Unskipped(stack, skipPackages) ==
  { i \in 1..Len(Walked(stack)) : ~Skippable(Walked(stack)[i], skipPackages) }

\* the first of them
FirstUnskipped == Walked(call.args)[Least(Unskipped(call.args, call.vals))]

Finding == call.m = "Caller" /\ Unskipped(call.args, call.vals) # {}

\* package.function of a frame
Qualified(f) == Join(f.last, ".")

C38_Original ==
  Finding => ret.obj = FirstUnskipped.last[1] \o "/" \o Qualified(FirstUnskipped)

(***************************************************************************)
(* C38, amended: Caller returns the first frame its walk comes to that is  *)
(* no function literal, not of database/sql, not of this package and not   *)
(* of a package of the skip list, as the segment of the import path that   *)
(* precedes the package (a dot when there is none), a slash, and           *)
(* package.function.  The frames skipped before that frame and the frames  *)
(* after it have no part in the result.                                    *)
(***************************************************************************)
\* the segment of the import path before the package
Parent(f) == IF f.path = <<>> THEN "." ELSE f.path[Len(f.path)]

C38_FirstUnskippedFrame ==
  Finding => ret.obj = Parent(FirstUnskipped) \o "/" \o Qualified(FirstUnskipped)

\* a query builder of the skip list and a frame of database/sql walked by
\* before the application's function, with a frame after it
C38_Witness ==
  /\ Finding
  /\ call.vals # <<>>
  /\ Least(Unskipped(call.args, call.vals)) = 2
  /\ Package(Walked(call.args)[1]) = "github.com/acme/builder"
  /\ Len(Walked(call.args)) >= 2
  /\ ret.obj = "acme/app.Run"

====
